---- MODULE Spec2Model ----
(***************************************************************************)
(* FarmFlow production scheduling core.                                    *)
(*                                                                         *)
(* Part I  - the order controller (createOrder / updateOrder / deleteOrder *)
(*           with generateTasksFromOrder), one request handler at a time,  *)
(*           every awaited database write a step of its own, so that a     *)
(*           handler that dies between two writes leaves what it wrote.    *)
(* Part II - the services (OrderService, StandingOrderService,            *)
(*           BatchService, PlanningService) on their own database, called  *)
(*           by workers that interleave at awaits.                         *)
(*                                                                         *)
(* Conventions.  A date is a day number (DATEONLY, 'yyyy-MM-dd'); addDays  *)
(* is integer addition and format/new Date are exact on day numbers (the   *)
(* process runs in UTC and requests carry date-only strings).  Quantities  *)
(* and prices are whole numbers.  A primary key is a fresh number from     *)
(* nextId (UUIDV4 never repeats); rows inserted by one bulkCreate get      *)
(* increasing keys in array order.  All requests of one run fall on the    *)
(* same calendar day, so every order number carries the same date prefix   *)
(* and an order number is represented by its sequence part.                *)
(* An optional request field is a set with at most one element.            *)
(***************************************************************************)
EXTENDS Integers, Sequences, FiniteSets, TLC

VARIABLES
    orders,     \* rows of table orders
    batches,    \* rows of table batches
    tasks,      \* rows of table tasks
    nextId,     \* next fresh primary key
    pc,         \* position of the request handler ("idle": none in flight)
    req,        \* the request being handled (kept after it ends)
    loc,        \* the handler's local variables
    res,        \* outcome of the last finished request
    nreq,       \* number of order requests started so far
    standingOrders, \* rows of table standing_orders, with their items
    svcOrders,  \* rows of the order service's table orders, with their items
    svcNext,    \* next fresh primary key of the services' database
    wpc,        \* position of each service worker ("idle": no call in flight)
    wloc,       \* each service worker's local variables
    sres,       \* outcome of the last finished service call
    nsvc,       \* number of service calls started so far
    prodBatches, \* rows of table production_batches
    harvests,   \* rows of table batch_harvests
    svcTasks    \* rows of the services' table tasks

varsC == <<orders, batches, tasks, nextId, pc, req, loc, res, nreq>>
varsS == <<standingOrders, svcOrders, svcNext, wpc, wloc, sres, nsvc>>
varsP == <<prodBatches, harvests, svcTasks>>
vars == <<varsC, varsS, varsP>>

---------------------------------------------------------------------------
(* Bounds of the exploration *)

MaxRequests == 2     \* order requests (create/update/delete) per run
MaxDone == 1         \* tasks moved out of status pending per run
MaxSeries == 1       \* recurring createOrder requests per run
MaxStanding == 2     \* standing orders per run
MaxRuns == 2         \* generation runs per run
MaxCalls == 2        \* order service calls per run
MaxOps == 3          \* batch service calls per run
MaxPauseCalls == 3   \* pause, resume and generation calls per run
MaxPlanCalls == 4    \* order, batch and planning calls per run
MaxHarvestCalls == 3 \* createBatch and recordHarvest calls per run
MaxTenantCalls == 3  \* service calls of the two tenants per run
MaxNumberRequests == 3 \* createOrder and deleteOrder requests per run
MaxNumberCalls == 2  \* createOrder and createBatch calls of the tenants per run

---------------------------------------------------------------------------
(* Catalog: crops and customers are read-only here *)

Users == {"u1", "u2"}
Customers == {"k1"}
Crops == {"c1", "c2", "c3"}

\* name3 is crop.name.substring(0, 3).toUpperCase()
Crop(c) ==
    CASE c = "c1" -> [name3 |-> "SUN", category |-> "microgreens",
                      growthDays |-> 10, blackoutDays |-> 4, soakTime |-> 8]
      [] c = "c2" -> [name3 |-> "SUN", category |-> "microgreens",
                      growthDays |-> 7, blackoutDays |-> 3, soakTime |-> 0]
      [] c = "c3" -> [name3 |-> "OYS", category |-> "mushrooms",
                      growthDays |-> 12, blackoutDays |-> 0, soakTime |-> 0]

CropExists(c) == c \in Crops

addDays(d, n) == d + n

---------------------------------------------------------------------------
(* Pure helpers of the order controller *)

\* variant that forgets the quantities
RECURSIVE SumItems_pricesOnly(_)
SumItems_pricesOnly(items) ==
    IF items = <<>> THEN 0
    ELSE Head(items).price + SumItems_pricesOnly(Tail(items))

RECURSIVE SumItems(_)
SumItems(items) ==
    IF items = <<>> THEN 0
    ELSE Head(items).quantity * Head(items).price + SumItems(Tail(items))

\* variant that looks at the first item only
MaxGrowth_firstItem(items) ==
    IF items # <<>> /\ CropExists(Head(items).cropId)
    THEN Crop(Head(items).cropId).growthDays ELSE 0

RECURSIVE MaxGrowth(_)
MaxGrowth(items) ==
    IF items = <<>> THEN 0
    ELSE LET rest == MaxGrowth(Tail(items))
             c == Head(items).cropId
         IN IF CropExists(c) /\ Crop(c).growthDays > rest
            THEN Crop(c).growthDays ELSE rest

DeliveryDateFor(dateType, targetDate, deliveryOffset, items) ==
    IF dateType = "start"
    THEN addDays(addDays(targetDate, MaxGrowth(items)), -deliveryOffset)
    ELSE addDays(targetDate, -deliveryOffset)

generateOrderNumber == Cardinality(orders) + 1

\* variant that takes a month for 31 days
FrequencyStep_month31(frequency) ==
    CASE frequency = "weekly" -> 7
      [] frequency = "biweekly" -> 14
      [] frequency = "monthly" -> 31
      [] OTHER -> 0

FrequencyStep(frequency) ==
    CASE frequency = "weekly" -> 7
      [] frequency = "biweekly" -> 14
      [] frequency = "monthly" -> 30
      [] OTHER -> 0

BatchNumber(order, c) == <<order.orderNumber, Crop(c).name3>>

TaskRow(type, category, date, c, order, batchId) ==
    [type |-> type, category |-> category, date |-> date, status |-> "pending",
     cropId |-> c, orderId |-> order.id, batchId |-> batchId,
     userId |-> order.userId]

\* variant that uncovers blackoutDays before the harvest
ItemTasks_uncoverLate(order, item, batchId) ==
    LET c == item.cropId
        crop == Crop(c)
        harvestDate == addDays(order.deliveryDate, -order.deliveryOffset)
    IN IF crop.category = "microgreens"
       THEN (IF crop.soakTime > 0
             THEN <<TaskRow("soak", "microgreens",
                            addDays(harvestDate, -crop.growthDays - 1), c, order, batchId)>>
             ELSE <<>>)
            \o <<TaskRow("plant", "microgreens",
                         addDays(harvestDate, -crop.growthDays), c, order, batchId),
                 TaskRow("uncover", "microgreens",
                         addDays(harvestDate, -crop.blackoutDays), c, order, batchId),
                 TaskRow("harvest", "microgreens", harvestDate, c, order, batchId)>>
       ELSE <<TaskRow("introduce", "mushrooms",
                      addDays(harvestDate, -crop.growthDays), c, order, batchId),
              TaskRow("harvest", "mushrooms", harvestDate, c, order, batchId)>>

\* the tasks pushed for one item whose crop resolved
ItemTasks(order, item, batchId) ==
    LET c == item.cropId
        crop == Crop(c)
        harvestDate == addDays(order.deliveryDate, -order.deliveryOffset)
    IN IF crop.category = "microgreens"
       THEN LET growStartDate ==
                    addDays(harvestDate, -(crop.growthDays - crop.blackoutDays))
                blackoutStartDate == addDays(harvestDate, -crop.growthDays)
                soakDate == addDays(blackoutStartDate, -1)
            IN (IF crop.soakTime > 0
                THEN <<TaskRow("soak", "microgreens", soakDate, c, order, batchId)>>
                ELSE <<>>)
               \o <<TaskRow("plant", "microgreens", blackoutStartDate, c, order, batchId),
                    TaskRow("uncover", "microgreens", growStartDate, c, order, batchId),
                    TaskRow("harvest", "microgreens", harvestDate, c, order, batchId)>>
       ELSE LET introDate == addDays(harvestDate, -crop.growthDays)
            IN <<TaskRow("introduce", "mushrooms", introDate, c, order, batchId),
                 TaskRow("harvest", "mushrooms", harvestDate, c, order, batchId)>>

DeliveryTask(order) ==
    TaskRow("delivery", "delivery", order.deliveryDate, "none", order, 0)

\* Task.bulkCreate: the rows get fresh keys in array order
BulkRows(rows, first) ==
    {[id |-> first + k - 1, type |-> rows[k].type, category |-> rows[k].category,
      date |-> rows[k].date, status |-> rows[k].status, cropId |-> rows[k].cropId,
      orderId |-> rows[k].orderId, batchId |-> rows[k].batchId,
      userId |-> rows[k].userId] : k \in 1..Len(rows)}

\* variants that spare a completed task / a batch of a crop still ordered
TasksAfterDestroy_sparesDone(oid) ==
    {t \in tasks : t.orderId # oid \/ t.status # "pending"}

BatchesAfterDestroy_sparesAll(oid) == batches

\* Task.destroy / Batch.destroy ({ where: { orderId } })
TasksAfterDestroy(oid) == {t \in tasks : t.orderId # oid}
BatchesAfterDestroy(oid) == {b \in batches : b.orderId # oid}

OrderById(oid) == CHOOSE o \in orders : o.id = oid

One(s) == CHOOSE x \in s : TRUE

---------------------------------------------------------------------------
(* Requests *)

Item(c, q, p) == [cropId |-> c, quantity |-> q, price |-> p]

\* a request body; every field optional
Body(customerId, dateType, targetDate, deliveryOffset, items, status, isRecurring, frequency, recurringEndDate) ==
    [customerId |-> customerId, dateType |-> dateType, targetDate |-> targetDate,
     deliveryOffset |-> deliveryOffset, items |-> items, status |-> status,
     isRecurring |-> isRecurring, frequency |-> frequency,
     recurringEndDate |-> recurringEndDate]

NoBody == Body({}, {}, {}, {}, {}, {}, FALSE, "none", {})

Single(dateType, targetDate, deliveryOffset, items) ==
    Body({"k1"}, {dateType}, {targetDate}, {deliveryOffset}, {items}, {},
         FALSE, "none", {})

Recurring(targetDate, items, frequency, recurringEndDate) ==
    Body({"k1"}, {"harvest"}, {targetDate}, {0}, {items}, {},
         TRUE, frequency, {recurringEndDate})

Patch(dateType, targetDate, deliveryOffset, items, status) ==
    Body({}, dateType, targetDate, deliveryOffset, items, status, FALSE, "none", {})

\* created: the orders this request has finished so far.  pre, preB, preDone,
\* preOrder and first record what the request found when it started (the target
\* order's task and batch keys, whether one of those tasks had left status
\* pending, the target order's row, the next fresh key); the handler never
\* reads them.
NoLoc == [orderId |-> 0, idx |-> 0, acc |-> <<>>, date |-> 0, total |-> 0,
          created |-> <<>>, pre |-> {}, preB |-> {}, preDone |-> FALSE,
          preOrder |-> {}, first |-> 0]

NoRes == [op |-> "none", ok |-> FALSE, code |-> "none", created |-> <<>>,
          pre |-> {}, preB |-> {}, preDone |-> FALSE, preOrder |-> {},
          first |-> 0]

\* the response (or the lack of one) that ends a request
Result(ok, code) ==
    [op |-> req.op, ok |-> ok, code |-> code, created |-> loc.created,
     pre |-> loc.pre, preB |-> loc.preB, preDone |-> loc.preDone,
     preOrder |-> loc.preOrder, first |-> loc.first]

---------------------------------------------------------------------------
(* createOrder *)

StartCreate(u, b) ==
    /\ pc = "idle"
    /\ UNCHANGED <<varsS, varsP>>
    /\ nreq' = nreq + 1
    /\ req' = [op |-> "create", user |-> u, id |-> 0, body |-> b]
    /\ UNCHANGED <<orders, batches, tasks, nextId>>
    /\ IF b.customerId \cap Customers = {}
       THEN /\ pc' = "idle"
            /\ loc' = NoLoc
            /\ res' = [NoRes EXCEPT !.op = "create", !.code = "400",
                                    !.first = nextId]
       ELSE LET items == One(b.items)
                deliveryDate == DeliveryDateFor(One(b.dateType), One(b.targetDate),
                                                One(b.deliveryOffset), items)
            IN /\ loc' = [NoLoc EXCEPT !.date = deliveryDate,
                                       !.total = SumItems(items),
                                       !.first = nextId]
               /\ IF /\ b.isRecurring
                     /\ b.recurringEndDate # {}
                     /\ deliveryDate > One(b.recurringEndDate)
                  THEN /\ pc' = "idle"
                       /\ res' = [NoRes EXCEPT !.op = "create", !.ok = TRUE,
                                               !.code = "201", !.first = nextId]
                  ELSE /\ pc' = "c_order"
                       /\ res' = NoRes

\* createSingleOrder: generateOrderNumber, then Order.create
CreateInsertOrder ==
    /\ pc = "c_order"
    /\ UNCHANGED <<varsS, varsP>>
    /\ UNCHANGED <<batches, tasks, req, nreq>>
    /\ LET orderNumber == generateOrderNumber
           b == req.body
       IN IF \E o \in orders : o.orderNumber = orderNumber
          THEN \* unique constraint on orderNumber: Order.create throws
               /\ pc' = "idle"
               /\ res' = Result(FALSE, "500")
               /\ UNCHANGED <<orders, nextId, loc>>
          ELSE \* the recurrence columns are not passed: they take their
               \* defaults (isRecurring false, the others NULL)
               /\ orders' = orders \cup
                     {[id |-> nextId, orderNumber |-> orderNumber,
                       isRecurring |-> FALSE, frequency |-> {},
                       recurringEndDate |-> {}, parentOrderId |-> 0,
                       customerId |-> One(b.customerId), userId |-> req.user,
                       dateType |-> One(b.dateType),
                       targetDate |-> One(b.targetDate),
                       deliveryDate |-> loc.date,
                       deliveryOffset |-> One(b.deliveryOffset),
                       items |-> One(b.items), total |-> loc.total,
                       status |-> "pending"]}
               /\ nextId' = nextId + 1
               /\ loc' = [loc EXCEPT !.orderId = nextId, !.idx = 1, !.acc = <<>>]
               /\ pc' = "gen"
               /\ UNCHANGED res

---------------------------------------------------------------------------
(* generateTasksFromOrder *)

\* one turn of the loop over order.items
GenItem ==
    /\ pc = "gen"
    /\ UNCHANGED <<varsS, varsP>>
    /\ LET order == OrderById(loc.orderId)
       IN /\ loc.idx <= Len(order.items)
          /\ LET item == order.items[loc.idx]
             IN IF ~CropExists(item.cropId)
                THEN \* if (!crop) continue;
                     /\ loc' = [loc EXCEPT !.idx = loc.idx + 1]
                     /\ UNCHANGED <<batches, nextId, pc, res>>
                ELSE IF \E x \in batches :
                            x.batchNumber = BatchNumber(order, item.cropId)
                THEN \* unique constraint on batchNumber: Batch.create throws
                     /\ pc' = "idle"
                     /\ res' = Result(FALSE, "500")
                     /\ UNCHANGED <<batches, nextId, loc>>
                ELSE /\ batches' = batches \cup
                          {[id |-> nextId,
                            batchNumber |-> BatchNumber(order, item.cropId),
                            cropId |-> item.cropId, orderId |-> order.id,
                            userId |-> req.user,
                            startDate |-> addDays(order.deliveryDate,
                                             -Crop(item.cropId).growthDays),
                            harvestDate |-> addDays(order.deliveryDate,
                                               -order.deliveryOffset),
                            quantity |-> item.quantity, status |-> "planned"]}
                     /\ nextId' = nextId + 1
                     /\ loc' = [loc EXCEPT
                                  !.idx = loc.idx + 1,
                                  !.acc = loc.acc \o ItemTasks(order, item, nextId)]
                     /\ UNCHANGED <<pc, res>>
    /\ UNCHANGED <<orders, tasks, req, nreq>>

\* the delivery task and Task.bulkCreate, then the caller's continuation
GenTasks ==
    /\ pc = "gen"
    /\ UNCHANGED <<varsS, varsP>>
    /\ LET order == OrderById(loc.orderId)
           rows == loc.acc \o <<DeliveryTask(order)>>
           b == req.body
           created == IF req.op = "create" THEN Append(loc.created, order.id)
                      ELSE loc.created
           next == addDays(loc.date, FrequencyStep(b.frequency))
       IN /\ loc.idx > Len(order.items)
          /\ tasks' = tasks \cup BulkRows(rows, nextId)
          /\ nextId' = nextId + Len(rows)
          /\ IF /\ req.op = "create"
                /\ b.isRecurring
                /\ b.recurringEndDate # {}
                /\ FrequencyStep(b.frequency) > 0
                /\ next <= One(b.recurringEndDate)
             THEN /\ pc' = "c_order"
                  /\ loc' = [loc EXCEPT !.created = created, !.date = next,
                                        !.orderId = 0, !.idx = 0, !.acc = <<>>]
                  /\ UNCHANGED res
             ELSE /\ pc' = "idle"
                  /\ loc' = [loc EXCEPT !.created = created]
                  /\ res' = [Result(TRUE, IF req.op = "create" THEN "201" ELSE "200")
                               EXCEPT !.created = created]
    /\ UNCHANGED <<orders, batches, req, nreq>>

---------------------------------------------------------------------------
(* updateOrder *)

\* Order.findOne({ where: { id, userId } })
FindOrder(u, id) == {o \in orders : o.id = id /\ o.userId = u}

StartUpdate(u, id, b) ==
    /\ pc = "idle"
    /\ UNCHANGED <<varsS, varsP>>
    /\ nreq' = nreq + 1
    /\ req' = [op |-> "update", user |-> u, id |-> id, body |-> b]
    /\ UNCHANGED <<orders, batches, tasks, nextId>>
    /\ IF FindOrder(u, id) = {}
       THEN /\ pc' = "idle"
            /\ loc' = NoLoc
            /\ res' = [NoRes EXCEPT !.op = "update", !.code = "404",
                                    !.first = nextId]
       ELSE /\ pc' = "u_tasks"
            /\ loc' = [NoLoc EXCEPT
                         !.orderId = id,
                         !.first = nextId,
                         !.preOrder = FindOrder(u, id),
                         !.pre = {t.id : t \in {x \in tasks : x.orderId = id}},
                         !.preB = {x.id : x \in {y \in batches : y.orderId = id}},
                         !.preDone = \E t \in tasks : /\ t.orderId = id
                                                     /\ t.status # "pending"]
            /\ res' = NoRes

UpdateDestroyTasks ==
    /\ pc = "u_tasks"
    /\ UNCHANGED <<varsS, varsP>>
    /\ tasks' = TasksAfterDestroy(loc.orderId)
    /\ pc' = "u_batches"
    /\ UNCHANGED <<orders, batches, nextId, req, loc, res, nreq>>

UpdateDestroyBatches ==
    /\ pc = "u_batches"
    /\ UNCHANGED <<varsS, varsP>>
    /\ batches' = BatchesAfterDestroy(loc.orderId)
    /\ pc' = "u_save"
    /\ UNCHANGED <<orders, tasks, nextId, req, loc, res, nreq>>

\* the order instance after the field assignments of updateOrder
Patched(order, b) ==
    LET o1 == [order EXCEPT
                 !.customerId = IF b.customerId \cap Customers # {}
                                THEN One(b.customerId) ELSE @,
                 !.dateType = IF b.dateType # {} THEN One(b.dateType) ELSE @,
                 !.targetDate = IF b.targetDate # {} THEN One(b.targetDate) ELSE @,
                 !.deliveryOffset = IF b.deliveryOffset # {}
                                    THEN One(b.deliveryOffset) ELSE @,
                 !.status = IF b.status # {} THEN One(b.status) ELSE @]
    IN IF b.items = {} THEN o1
       ELSE [o1 EXCEPT
               !.items = One(b.items),
               !.total = SumItems(One(b.items)),
               !.deliveryDate = DeliveryDateFor(o1.dateType, o1.targetDate,
                                                o1.deliveryOffset, One(b.items))]

\* order.save(), then the regeneration unless the order is cancelled
UpdateSave ==
    /\ pc = "u_save"
    /\ UNCHANGED <<varsS, varsP>>
    /\ LET order == OrderById(loc.orderId)
           new == Patched(order, req.body)
       IN /\ orders' = (orders \ {order}) \cup {new}
          /\ IF new.status # "cancelled"
             THEN /\ pc' = "gen"
                  /\ loc' = [loc EXCEPT !.idx = 1, !.acc = <<>>]
                  /\ UNCHANGED res
             ELSE /\ pc' = "idle"
                  /\ res' = Result(TRUE, "200")
                  /\ UNCHANGED loc
    /\ UNCHANGED <<batches, tasks, nextId, req, nreq>>

---------------------------------------------------------------------------
(* deleteOrder *)

StartDelete(u, id) ==
    /\ pc = "idle"
    /\ UNCHANGED <<varsS, varsP>>
    /\ nreq' = nreq + 1
    /\ req' = [op |-> "delete", user |-> u, id |-> id, body |-> NoBody]
    /\ UNCHANGED <<orders, batches, tasks, nextId>>
    /\ IF FindOrder(u, id) = {}
       THEN /\ pc' = "idle"
            /\ loc' = NoLoc
            /\ res' = [NoRes EXCEPT !.op = "delete", !.code = "404",
                                    !.first = nextId]
       ELSE /\ pc' = "d_tasks"
            /\ loc' = [NoLoc EXCEPT
                         !.orderId = id,
                         !.first = nextId,
                         !.preOrder = FindOrder(u, id),
                         !.pre = {t.id : t \in {x \in tasks : x.orderId = id}},
                         !.preB = {x.id : x \in {y \in batches : y.orderId = id}},
                         !.preDone = \E t \in tasks : /\ t.orderId = id
                                                     /\ t.status # "pending"]
            /\ res' = NoRes

DeleteDestroyTasks ==
    /\ pc = "d_tasks"
    /\ UNCHANGED <<varsS, varsP>>
    /\ tasks' = TasksAfterDestroy(loc.orderId)
    /\ pc' = "d_batches"
    /\ UNCHANGED <<orders, batches, nextId, req, loc, res, nreq>>

DeleteDestroyBatches ==
    /\ pc = "d_batches"
    /\ UNCHANGED <<varsS, varsP>>
    /\ batches' = BatchesAfterDestroy(loc.orderId)
    /\ pc' = "d_order"
    /\ UNCHANGED <<orders, tasks, nextId, req, loc, res, nreq>>

\* a row that still references the order is detached by its foreign key
\* (belongsTo without onDelete: ON DELETE SET NULL); 0 stands for NULL
Detached(rows, oid) ==
    {IF r.orderId = oid THEN [r EXCEPT !.orderId = 0] ELSE r : r \in rows}

DeleteDestroyOrder ==
    /\ pc = "d_order"
    /\ UNCHANGED <<varsS, varsP>>
    /\ orders' = {o \in orders : o.id # loc.orderId}
    /\ tasks' = Detached(tasks, loc.orderId)
    /\ batches' = Detached(batches, loc.orderId)
    /\ pc' = "idle"
    /\ res' = Result(TRUE, "200")
    /\ UNCHANGED <<nextId, req, loc, nreq>>

---------------------------------------------------------------------------
(* updateTask (task controller): a task of the caller is completed *)

UpdateTask(u, tid) ==
    /\ pc = "idle"
    /\ UNCHANGED <<varsS, varsP>>
    /\ Cardinality({t \in tasks : t.status # "pending"}) < MaxDone
    /\ \E t \in tasks :
          /\ t.id = tid
          /\ t.userId = u
          /\ t.status = "pending"
          /\ tasks' = (tasks \ {t}) \cup {[t EXCEPT !.status = "completed"]}
    /\ res' = [NoRes EXCEPT !.op = "task", !.ok = TRUE, !.code = "200",
                            !.first = nextId]
    /\ UNCHANGED <<orders, batches, nextId, pc, req, loc, nreq>>

---------------------------------------------------------------------------
(* the process dies (or the connection drops) while a request is in flight:
   no transaction is open, so everything written so far stays *)

Crash ==
    /\ pc # "idle"
    /\ UNCHANGED <<varsS, varsP>>
    /\ pc' = "idle"
    /\ res' = Result(FALSE, "crash")
    /\ UNCHANGED <<orders, batches, tasks, nextId, req, loc, nreq>>

---------------------------------------------------------------------------
(* Part II: the services.

   A service call runs on a worker; workers interleave at awaits.  A managed
   section between sequelize.transaction() and commit() is one step: its writes
   become visible together at the commit and vanish together at a rollback.
   The statements that read through the default connection inside such a
   section (recalculateTotals) are taken to see the section's own writes; what
   other workers see is the committed state only.  An order number is
   represented by its sequence part (all calls fall into one month), and the
   rows of order_items / standing_order_items are kept with their parent. *)

Workers == {"w1", "w2"}
Accounts == {"a1", "a2"}
Products == {"p1", "p2", "p3"}

\* p3 has no crop type linked
Product(p) ==
    CASE p = "p1" -> [basePrice |-> 3, cropTypeId |-> "t1"]
      [] p = "p2" -> [basePrice |-> 5, cropTypeId |-> "t3"]
      [] OTHER -> [basePrice |-> 2, cropTypeId |-> "none"]

\* Date.getDay() of a day number
getDay(d) == d % 7

\* the body of a createBatch call
NoBatchData == [cropTypeId |-> "none", productionType |-> "none", quantity |-> 0,
                plannedSowDate |-> 0, generateTasks |-> TRUE]

NoData == [customerId |-> "none", deliveryDate |-> 0, source |-> "manual",
           standingOrderId |-> 0, discount |-> 0, tax |-> 0, items |-> <<>>]

\* the options of a generateSowingPlan call; wasteBuffer in percent
NoOpts == [startDate |-> 0, endDate |-> 0, wasteBuffer |-> 10, includeBuffer |-> TRUE]

\* pre, sos and paused record what a generation run found when it started (the
\* keys of the orders, of the standing orders and of the paused standing
\* orders), snap the tables a planning call found; the calls never read them
NoWloc == [op |-> "none", accountId |-> "a1", forDate |-> 0, todo |-> <<>>,
           data |-> NoData, orderNumber |-> 0, made |-> <<>>,
           pre |-> {}, sos |-> {}, paused |-> {},
           bdata |-> NoBatchData, batchCode |-> <<"", 0>>, batch |-> {},
           qty |-> 0, opts |-> NoOpts, plan |-> <<>>, snap |-> <<>>]

\* by is the worker that made an update, status, harvest or delete call; from,
\* to and flush record the status a batch call found, the status it asked for
\* and the currentFlush it found
NoSres == [op |-> "none", by |-> "none", ok |-> FALSE, id |-> 0, items |-> FALSE, made |-> <<>>,
           forDate |-> 0, pre |-> {}, sos |-> {}, paused |-> {},
           from |-> "none", to |-> "none", flush |-> 0,
           opts |-> NoOpts, plan |-> <<>>, snap |-> <<>>]

\* the standing orders findAll selects for forDate, in key order
RECURSIVE SeqByKey(_)
SeqByKey(S) ==
    IF S = {} THEN <<>>
    ELSE LET m == CHOOSE x \in S : \A y \in S : x.id <= y.id
         IN <<m>> \o SeqByKey(S \ {m})

\* variant that takes a pause for over once pausedUntil has passed
DueStandingOrders_untilPassed(accountId, targetDate) ==
    SeqByKey({so \in standingOrders :
                /\ so.accountId = accountId
                /\ so.isActive
                /\ so.autoGenerate
                /\ (~so.isPaused \/ (so.pausedUntil # {} /\ One(so.pausedUntil) < targetDate))
                /\ so.startDate <= targetDate
                /\ (so.endDate = {} \/ One(so.endDate) >= targetDate)})

DueStandingOrders(accountId, targetDate) ==
    SeqByKey({so \in standingOrders :
                /\ so.accountId = accountId
                /\ so.isActive
                /\ so.autoGenerate
                /\ ~so.isPaused
                /\ so.startDate <= targetDate
                /\ (so.endDate = {} \/ One(so.endDate) >= targetDate)})

\* Order.findOne({ where: { accountId, standingOrderId, deliveryDate: targetDate } })
ExistingOrder(accountId, so, targetDate) ==
    {o \in svcOrders : /\ o.accountId = accountId
                       /\ o.standingOrderId = so.id
                       /\ o.deliveryDate = targetDate}

\* the orderData built from a standing order
OrderDataFrom(so, targetDate) ==
    [customerId |-> so.customerId,
     deliveryDate |-> targetDate + so.generateDaysAhead,
     source |-> "standing_order",
     standingOrderId |-> so.id,
     discount |-> 0, tax |-> 0,
     items |-> [k \in 1..Len(so.items) |->
                  [productId |-> so.items[k].productId,
                   quantity |-> so.items[k].quantity,
                   unitPrice |-> IF so.items[k].productId \in Products
                                 THEN Product(so.items[k].productId).basePrice
                                 ELSE 0]]]

\* OrderService.generateOrderNumber: the account's highest number plus one
svcGenerateOrderNumber(accountId) ==
    LET mine == {o.orderNumber : o \in {x \in svcOrders : x.accountId = accountId}}
    IN IF mine = {} THEN 1
       ELSE (CHOOSE n \in mine : \A m \in mine : m <= n) + 1

\* the order_items rows created for the items of a request
ItemRows(items) ==
    [k \in 1..Len(items) |->
        LET unitPrice == IF items[k].unitPrice # 0 THEN items[k].unitPrice
                         ELSE Product(items[k].productId).basePrice
        IN [productId |-> items[k].productId, quantity |-> items[k].quantity,
            unitPrice |-> unitPrice, total |-> items[k].quantity * unitPrice]]

\* OrderService.recalculateTotals
RECURSIVE Subtotal(_)
Subtotal(rows) ==
    IF rows = <<>> THEN 0 ELSE Head(rows).total + Subtotal(Tail(rows))

recalculateTotals(order) ==
    [order EXCEPT !.subtotal = Subtotal(order.items),
                  !.total = Subtotal(order.items) - order.discount + order.tax]

UnknownProduct(items) == \E k \in 1..Len(items) : items[k].productId \notin Products

---------------------------------------------------------------------------
(* StandingOrderService.createStandingOrder *)

CreateStandingOrder(a, data) ==
    /\ standingOrders' = standingOrders \cup
          {[id |-> svcNext, accountId |-> a, customerId |-> "k1",
            deliveryDays |-> data.deliveryDays,
            generateDaysAhead |-> data.generateDaysAhead,
            autoGenerate |-> data.autoGenerate, isActive |-> data.isActive,
            isPaused |-> data.isPaused, pausedUntil |-> data.pausedUntil,
            startDate |-> data.startDate,
            endDate |-> data.endDate, items |-> data.items,
            lastGeneratedAt |-> 0]}
    /\ svcNext' = svcNext + 1
    /\ UNCHANGED <<svcOrders, wpc, wloc, sres, nsvc>>
    /\ UNCHANGED <<varsC, varsP>>

---------------------------------------------------------------------------
(* StandingOrderService.generateOrdersFromStandingOrders *)

GenStart(w, a, forDate) ==
    /\ wpc[w] = "idle"
    /\ nsvc' = nsvc + 1
    /\ wloc' = [wloc EXCEPT ![w] =
                  [NoWloc EXCEPT !.op = "generate", !.accountId = a,
                                 !.forDate = forDate,
                                 !.todo = DueStandingOrders(a, forDate),
                                 !.pre = {o.id : o \in svcOrders},
                                 !.sos = {so.id : so \in standingOrders},
                                 !.paused = {so.id : so \in
                                               {x \in standingOrders : x.isPaused}}]]
    /\ wpc' = [wpc EXCEPT ![w] = "g_loop"]
    /\ UNCHANGED <<standingOrders, svcOrders, svcNext, sres>>
    /\ UNCHANGED <<varsC, varsP>>

\* one turn of the loop, up to the answer of the existing-order lookup
GenLoop(w) ==
    /\ wpc[w] = "g_loop"
    /\ LET l == wloc[w]
       IN IF l.todo = <<>>
          THEN /\ wpc' = [wpc EXCEPT ![w] = "idle"]
               /\ sres' = [NoSres EXCEPT !.op = "generate", !.ok = TRUE,
                                         !.made = l.made,
                                         !.forDate = l.forDate,
                                         !.pre = l.pre, !.sos = l.sos,
                                         !.paused = l.paused]
               /\ UNCHANGED wloc
          ELSE LET so == Head(l.todo)
               IN /\ UNCHANGED sres
                  /\ IF \/ getDay(l.forDate) \notin so.deliveryDays
                        \/ ExistingOrder(l.accountId, so, l.forDate) # {}
                     THEN /\ wloc' = [wloc EXCEPT ![w].todo = Tail(l.todo)]
                          /\ UNCHANGED wpc
                     ELSE /\ wloc' = [wloc EXCEPT
                                        ![w].data = OrderDataFrom(so, l.forDate)]
                          /\ wpc' = [wpc EXCEPT ![w] = "number"]
    /\ UNCHANGED <<standingOrders, svcOrders, svcNext, nsvc>>
    /\ UNCHANGED <<varsC, varsP>>

\* so.update({ lastGeneratedAt }) after createOrder returned
GenStamp(w) ==
    /\ wpc[w] = "g_stamp"
    /\ LET so == Head(wloc[w].todo)
       IN standingOrders' =
             {IF x.id = so.id THEN [x EXCEPT !.lastGeneratedAt = 1] ELSE x :
                 x \in standingOrders}
    /\ wloc' = [wloc EXCEPT ![w].todo = Tail(wloc[w].todo)]
    /\ wpc' = [wpc EXCEPT ![w] = "g_loop"]
    /\ UNCHANGED <<svcOrders, svcNext, sres, nsvc>>
    /\ UNCHANGED <<varsC, varsP>>

---------------------------------------------------------------------------
(* StandingOrderService.pauseStandingOrder and resumeStandingOrder *)

PauseStandingOrder(id, pausedUntil) ==
    /\ nsvc' = nsvc + 1
    /\ IF \E so \in standingOrders : so.id = id
       THEN /\ standingOrders' =
                 {IF so.id = id
                  THEN [so EXCEPT !.isPaused = TRUE, !.pausedUntil = pausedUntil]
                  ELSE so : so \in standingOrders}
            /\ sres' = [NoSres EXCEPT !.op = "pause", !.ok = TRUE, !.id = id]
       ELSE /\ sres' = [NoSres EXCEPT !.op = "pause", !.id = id]
            /\ UNCHANGED standingOrders
    /\ UNCHANGED <<svcOrders, svcNext, wpc, wloc>>
    /\ UNCHANGED <<varsC, varsP>>

ResumeStandingOrder(id) ==
    /\ nsvc' = nsvc + 1
    /\ IF \E so \in standingOrders : so.id = id
       THEN /\ standingOrders' =
                 {IF so.id = id
                  THEN [so EXCEPT !.isPaused = FALSE, !.pausedUntil = {}]
                  ELSE so : so \in standingOrders}
            /\ sres' = [NoSres EXCEPT !.op = "resume", !.ok = TRUE, !.id = id]
       ELSE /\ sres' = [NoSres EXCEPT !.op = "resume", !.id = id]
            /\ UNCHANGED standingOrders
    /\ UNCHANGED <<svcOrders, svcNext, wpc, wloc>>
    /\ UNCHANGED <<varsC, varsP>>

---------------------------------------------------------------------------
(* OrderService.createOrder *)

SvcCreateOrder(w, a, data) ==
    /\ wpc[w] = "idle"
    /\ nsvc' = nsvc + 1
    /\ wloc' = [wloc EXCEPT ![w] =
                  [NoWloc EXCEPT !.op = "create", !.accountId = a, !.data = data]]
    /\ wpc' = [wpc EXCEPT ![w] = "number"]
    /\ UNCHANGED <<standingOrders, svcOrders, svcNext, sres>>
    /\ UNCHANGED <<varsC, varsP>>

\* generateOrderNumber reads through the default connection
SvcNumber(w) ==
    /\ wpc[w] = "number"
    /\ wloc' = [wloc EXCEPT
                  ![w].orderNumber = svcGenerateOrderNumber(wloc[w].accountId)]
    /\ wpc' = [wpc EXCEPT ![w] = "insert"]
    /\ UNCHANGED <<standingOrders, svcOrders, svcNext, sres, nsvc>>
    /\ UNCHANGED <<varsC, varsP>>

\* Order.create, the OrderItem.create loop, recalculateTotals, commit; a throw
\* rolls the section back and rejects the call (a generation run has no catch
\* around createOrder, so it ends there too)
SvcInsert(w) ==
    /\ wpc[w] = "insert"
    /\ LET l == wloc[w]
           row == [id |-> svcNext, accountId |-> l.accountId,
                   orderNumber |-> l.orderNumber,
                   customerId |-> l.data.customerId,
                   deliveryDate |-> l.data.deliveryDate,
                   source |-> l.data.source,
                   standingOrderId |-> l.data.standingOrderId,
                   status |-> "draft",
                   discount |-> l.data.discount, tax |-> l.data.tax,
                   subtotal |-> 0, total |-> 0,
                   items |-> ItemRows(l.data.items)]
       IN IF \/ \E o \in svcOrders : o.orderNumber = l.orderNumber
             \/ UnknownProduct(l.data.items)
          THEN /\ wpc' = [wpc EXCEPT ![w] = "idle"]
               /\ sres' = [NoSres EXCEPT !.op = l.op, !.made = l.made,
                                         !.forDate = l.forDate,
                                         !.pre = l.pre, !.sos = l.sos,
                                         !.paused = l.paused]
               /\ UNCHANGED <<svcOrders, svcNext, wloc>>
          ELSE /\ svcOrders' = svcOrders \cup {recalculateTotals(row)}
               /\ svcNext' = svcNext + 1
               /\ wloc' = [wloc EXCEPT ![w].made = Append(l.made, svcNext)]
               /\ IF l.op = "generate"
                  THEN /\ wpc' = [wpc EXCEPT ![w] = "g_stamp"]
                       /\ UNCHANGED sres
                  ELSE /\ wpc' = [wpc EXCEPT ![w] = "idle"]
                       /\ sres' = [NoSres EXCEPT !.op = "create", !.ok = TRUE,
                                                 !.id = svcNext, !.items = TRUE,
                                                 !.made = <<svcNext>>]
    /\ UNCHANGED <<standingOrders, nsvc>>
    /\ UNCHANGED <<varsC, varsP>>

---------------------------------------------------------------------------
(* OrderService.updateOrder and deleteOrder (one section each) *)

SvcUpdateOrder(w, id, data) ==
    /\ wpc[w] = "idle"
    /\ nsvc' = nsvc + 1
    /\ IF \/ ~\E o \in svcOrders : o.id = id
          \/ (data.items # {} /\ UnknownProduct(One(data.items)))
       THEN /\ sres' = [NoSres EXCEPT !.op = "update", !.by = w, !.id = id,
                                      !.items = (data.items # {})]
            /\ UNCHANGED svcOrders
       ELSE LET order == CHOOSE o \in svcOrders : o.id = id
                o1 == [order EXCEPT
                         !.discount = IF data.discount # {}
                                      THEN One(data.discount) ELSE @,
                         !.tax = IF data.tax # {} THEN One(data.tax) ELSE @]
                new == IF data.items = {} THEN o1
                       ELSE recalculateTotals(
                               [o1 EXCEPT !.items = ItemRows(One(data.items))])
            IN /\ svcOrders' = (svcOrders \ {order}) \cup {new}
               /\ sres' = [NoSres EXCEPT !.op = "update", !.by = w, !.ok = TRUE, !.id = id,
                                         !.items = (data.items # {})]
    /\ UNCHANGED <<standingOrders, svcNext, wpc, wloc>>
    /\ UNCHANGED <<varsC, varsP>>

SvcDeleteOrder(w, id) ==
    /\ wpc[w] = "idle"
    /\ nsvc' = nsvc + 1
    /\ svcOrders' = {o \in svcOrders : o.id # id}
    /\ sres' = [NoSres EXCEPT !.op = "delete", !.by = w, !.id = id,
                              !.ok = \E o \in svcOrders : o.id = id]
    /\ UNCHANGED <<standingOrders, svcNext, wpc, wloc>>
    /\ UNCHANGED <<varsC, varsP>>

---------------------------------------------------------------------------
(* BatchService.  All calls of one run fall on the same calendar day, so a
   batch code is represented by its prefix and its sequence part.  NULL in an
   integer column is 0. *)

CropTypes == {"t1", "t2", "t3"}

CropType(t) ==
    CASE t = "t1" -> [category |-> "microgreen", growthDays |-> 10,
                      blackoutDays |-> 4, expectedYield |-> 8,
                      flushCount |-> 0, daysPerFlush |-> 0]
      [] t = "t2" -> [category |-> "mushroom", growthDays |-> 0,
                      blackoutDays |-> 0, expectedYield |-> 0,
                      flushCount |-> 2, daysPerFlush |-> 10]
      [] t = "t3" -> [category |-> "mushroom", growthDays |-> 0,
                      blackoutDays |-> 0, expectedYield |-> 10,
                      flushCount |-> 1, daysPerFlush |-> 0]

\* the values of the column type enum_production_batches_status
StatusEnum ==
    {"planned", "soaking", "planted", "blackout", "growing", "ready_to_harvest",
     "harvesting", "harvested", "disposed", "cancelled"}

\* x || d on a number
OrElse(x, d) == IF x = 0 THEN d ELSE x

\* generateBatchCode: the count of the account's codes with today's prefix, plus one
generateBatchCode(accountId, productionType) ==
    LET prefix == IF productionType = "microgreens_tray" THEN "MG" ELSE "MU"
        count == Cardinality({b \in prodBatches : /\ b.accountId = accountId
                                                   /\ b.batchCode[1] = prefix})
    IN <<prefix, count + 1>>

PlannedHarvestDate(data, cropType) ==
    IF data.productionType = "microgreens_tray"
    THEN data.plannedSowDate + cropType.blackoutDays + OrElse(cropType.growthDays, 7)
    ELSE data.plannedSowDate + OrElse(cropType.daysPerFlush, 7)

\* config.taskTemplates[productionType] with the offsets resolved
TaskTemplates(productionType, cropType) ==
    CASE productionType = "microgreens_tray" ->
            << [type |-> "sow", offset |-> 0],
               [type |-> "water", offset |-> 0],
               [type |-> "move", offset |-> cropType.blackoutDays],
               [type |-> "harvest", offset |-> OrElse(cropType.growthDays, 7)] >>
      [] productionType = "mushroom_rtf" ->
            << [type |-> "record", offset |-> 0],
               [type |-> "move", offset |-> 0],
               [type |-> "inspect",
                offset |-> IF cropType.daysPerFlush # 0
                           THEN (cropType.daysPerFlush * 7) \div 10 ELSE 5],
               [type |-> "harvest", offset |-> OrElse(cropType.daysPerFlush, 7)] >>
      [] OTHER -> <<>>

\* generateTasksForBatch: one Task.create per template
BatchTaskRows(batch, cropType, first) ==
    LET ts == TaskTemplates(batch.productionType, cropType)
    IN {[id |-> first + k - 1, accountId |-> batch.accountId,
         type |-> ts[k].type, dueDate |-> batch.plannedSowDate + ts[k].offset,
         batchId |-> batch.id, orderId |-> 0, status |-> "pending"] :
           k \in 1..Len(ts)}

BatchById(id) == {b \in prodBatches : b.id = id}

---------------------------------------------------------------------------
(* BatchService.createBatch *)

BatchCreate(w, a, data) ==
    /\ wpc[w] = "idle"
    /\ nsvc' = nsvc + 1
    /\ wloc' = [wloc EXCEPT ![w] =
                  [NoWloc EXCEPT !.op = "createBatch", !.accountId = a,
                                 !.bdata = data]]
    /\ wpc' = [wpc EXCEPT ![w] = "b_code"]
    /\ UNCHANGED <<standingOrders, svcOrders, svcNext, sres>>
    /\ UNCHANGED <<varsC, varsP>>

\* generateBatchCode reads through the default connection
BatchCode(w) ==
    /\ wpc[w] = "b_code"
    /\ wloc' = [wloc EXCEPT ![w].batchCode =
                   generateBatchCode(wloc[w].accountId, wloc[w].bdata.productionType)]
    /\ wpc' = [wpc EXCEPT ![w] = "b_insert"]
    /\ UNCHANGED <<standingOrders, svcOrders, svcNext, sres, nsvc>>
    /\ UNCHANGED <<varsC, varsP>>

\* CropType.findByPk, ProductionBatch.create, the qrCode update,
\* generateTasksForBatch, commit; a throw rolls the section back and rejects the
\* call (createBatchesFromPlan has no catch around createBatch, so it ends
\* there too)
BatchInsert(w) ==
    /\ wpc[w] = "b_insert"
    /\ LET l == wloc[w]
           data == l.bdata
       IN IF \/ data.cropTypeId \notin CropTypes
             \/ \E b \in prodBatches : b.batchCode = l.batchCode
          THEN /\ wpc' = [wpc EXCEPT ![w] = "idle"]
               /\ sres' = [NoSres EXCEPT !.op = l.op, !.made = l.made,
                                         !.plan = l.plan, !.snap = l.snap]
               /\ UNCHANGED <<prodBatches, svcTasks, svcNext, wloc>>
          ELSE LET cropType == CropType(data.cropTypeId)
                   batch == [id |-> svcNext, accountId |-> l.accountId,
                             batchCode |-> l.batchCode,
                             productionType |-> data.productionType,
                             cropTypeId |-> data.cropTypeId,
                             quantity |-> data.quantity,
                             plannedSowDate |-> data.plannedSowDate,
                             plannedHarvestDate |-> PlannedHarvestDate(data, cropType),
                             status |-> "planned", actualYield |-> 0,
                             currentFlush |-> 1,
                             maxFlushes |-> cropType.flushCount]
                   rows == IF data.generateTasks
                           THEN BatchTaskRows(batch, cropType, svcNext + 1)
                           ELSE {}
               IN /\ prodBatches' = prodBatches \cup {batch}
                  /\ svcTasks' = svcTasks \cup rows
                  /\ svcNext' = svcNext + 1 + Cardinality(rows)
                  /\ wloc' = [wloc EXCEPT ![w].made = Append(l.made, svcNext)]
                  /\ IF l.op = "fromPlan"
                     THEN /\ wpc' = [wpc EXCEPT ![w] = "p_next"]
                          /\ UNCHANGED sres
                     ELSE /\ wpc' = [wpc EXCEPT ![w] = "idle"]
                          /\ sres' = [NoSres EXCEPT !.op = l.op, !.ok = TRUE,
                                                    !.id = svcNext,
                                                    !.made = <<svcNext>>]
    /\ UNCHANGED <<standingOrders, svcOrders, nsvc, harvests>>
    /\ UNCHANGED varsC

---------------------------------------------------------------------------
(* BatchService.updateStatus *)

UpdateStatus(w, id, status) ==
    /\ wpc[w] = "idle"
    /\ nsvc' = nsvc + 1
    /\ IF BatchById(id) = {}
       THEN /\ sres' = [NoSres EXCEPT !.op = "status", !.by = w, !.id = id, !.to = status]
            /\ UNCHANGED prodBatches
       ELSE LET batch == One(BatchById(id))
            IN IF status \notin StatusEnum
               THEN \* the column type rejects the value: batch.update throws
                    /\ sres' = [NoSres EXCEPT !.op = "status", !.by = w, !.id = id,
                                              !.from = batch.status, !.to = status,
                                              !.flush = batch.currentFlush]
                    /\ UNCHANGED prodBatches
               ELSE /\ prodBatches' = (prodBatches \ {batch}) \cup
                                         {[batch EXCEPT !.status = status]}
                    /\ sres' = [NoSres EXCEPT !.op = "status", !.by = w, !.ok = TRUE,
                                              !.id = id, !.from = batch.status,
                                              !.to = status,
                                              !.flush = batch.currentFlush]
    /\ UNCHANGED <<standingOrders, svcOrders, svcNext, wpc, wloc>>
    /\ UNCHANGED <<harvests, svcTasks>>
    /\ UNCHANGED varsC

---------------------------------------------------------------------------
(* BatchService.recordHarvest *)

\* ProductionBatch.findByPk, outside the section
HarvestStart(w, id, quantity) ==
    /\ wpc[w] = "idle"
    /\ nsvc' = nsvc + 1
    /\ IF BatchById(id) = {}
       THEN /\ sres' = [NoSres EXCEPT !.op = "harvest", !.by = w, !.id = id]
            /\ UNCHANGED <<wpc, wloc>>
       ELSE /\ wloc' = [wloc EXCEPT ![w] =
                          [NoWloc EXCEPT !.op = "harvest",
                                         !.batch = BatchById(id),
                                         !.qty = quantity]]
            /\ wpc' = [wpc EXCEPT ![w] = "h_write"]
            /\ UNCHANGED sres
    /\ UNCHANGED <<standingOrders, svcOrders, svcNext>>
    /\ UNCHANGED <<varsC, varsP>>

\* the status and flush recordHarvest writes, from the batch it read
HarvestUpdates(batch) ==
    IF batch.productionType = "microgreens_tray"
    THEN [status |-> "harvested", currentFlush |-> batch.currentFlush]
    ELSE IF batch.currentFlush >= batch.maxFlushes
    THEN [status |-> "harvested", currentFlush |-> batch.currentFlush]
    ELSE [status |-> "fruiting", currentFlush |-> batch.currentFlush + 1]

\* BatchHarvest.create, batch.update, commit
HarvestWrite(w) ==
    /\ wpc[w] = "h_write"
    /\ LET l == wloc[w]
           batch == One(l.batch)
           updates == HarvestUpdates(batch)
           row == One(BatchById(batch.id))
       IN IF updates.status \notin StatusEnum
          THEN \* the column type rejects the value: the section rolls back
               /\ sres' = [NoSres EXCEPT !.op = "harvest", !.by = w, !.id = batch.id,
                                         !.from = batch.status,
                                         !.to = updates.status,
                                         !.flush = batch.currentFlush]
               /\ UNCHANGED <<prodBatches, harvests, svcNext>>
          ELSE /\ harvests' = harvests \cup
                     {[id |-> svcNext, batchId |-> batch.id,
                       flushNumber |-> batch.currentFlush, quantity |-> l.qty]}
               /\ svcNext' = svcNext + 1
               /\ prodBatches' = (prodBatches \ {row}) \cup
                     {[row EXCEPT !.actualYield = batch.actualYield + l.qty,
                                  !.status = updates.status,
                                  !.currentFlush = updates.currentFlush]}
               /\ sres' = [NoSres EXCEPT !.op = "harvest", !.by = w, !.ok = TRUE,
                                         !.id = batch.id, !.from = batch.status,
                                         !.to = updates.status,
                                         !.flush = batch.currentFlush]
    /\ wpc' = [wpc EXCEPT ![w] = "idle"]
    /\ UNCHANGED <<standingOrders, svcOrders, wloc, nsvc, svcTasks>>
    /\ UNCHANGED varsC

---------------------------------------------------------------------------
(* OrderService.updateStatus *)

SvcOrderStatus(w, id, status) ==
    /\ wpc[w] = "idle"
    /\ nsvc' = nsvc + 1
    /\ IF \E o \in svcOrders : o.id = id
       THEN /\ svcOrders' = {IF o.id = id THEN [o EXCEPT !.status = status] ELSE o :
                                o \in svcOrders}
            /\ sres' = [NoSres EXCEPT !.op = "orderStatus", !.by = w, !.ok = TRUE, !.id = id]
       ELSE /\ sres' = [NoSres EXCEPT !.op = "orderStatus", !.by = w, !.id = id]
            /\ UNCHANGED svcOrders
    /\ UNCHANGED <<standingOrders, svcNext, wpc, wloc>>
    /\ UNCHANGED <<varsC, varsP>>

---------------------------------------------------------------------------
(* PlanningService.generateSowingPlan.  Quantities are whole numbers, at most
   400 per crop and date; requiredQuantity is kept in hundredths. *)

\* Order.findAll of the orders in the date range, with their items
PlanOrders(accountId, opts) ==
    SeqByKey({o \in svcOrders :
                /\ o.accountId = accountId
                /\ o.deliveryDate >= opts.startDate
                /\ o.deliveryDate <= opts.endDate
                /\ o.status \notin {"cancelled", "delivered"}})

\* the items of the orders, in loop order, whose product has a crop type
RECURSIVE DemandLines(_)
DemandLines(os) ==
    IF os = <<>> THEN <<>>
    ELSE LET o == Head(os)
             line(k) == [cropTypeId |-> Product(o.items[k].productId).cropTypeId,
                         deliveryDate |-> o.deliveryDate, orderId |-> o.id,
                         orderNumber |-> o.orderNumber,
                         quantity |-> o.items[k].quantity]
             f[k \in 0..Len(o.items)] ==
                 IF k = 0 THEN <<>>
                 ELSE IF line(k).cropTypeId \in CropTypes
                 THEN Append(f[k - 1], line(k)) ELSE f[k - 1]
         IN f[Len(o.items)] \o DemandLines(Tail(os))

\* demandMap after the aggregation loop, in insertion order
RECURSIVE DemandMap(_)
DemandMap(lines) ==
    IF lines = <<>> THEN <<>>
    ELSE LET map == DemandMap(SubSeq(lines, 1, Len(lines) - 1))
             l == lines[Len(lines)]
             ref == [orderId |-> l.orderId, orderNumber |-> l.orderNumber,
                     quantity |-> l.quantity]
             hit == {i \in 1..Len(map) : /\ map[i].cropTypeId = l.cropTypeId
                                          /\ map[i].deliveryDate = l.deliveryDate}
         IN IF hit = {}
            THEN Append(map, [cropTypeId |-> l.cropTypeId,
                              deliveryDate |-> l.deliveryDate,
                              totalQuantity |-> l.quantity, orders |-> <<ref>>])
            ELSE [map EXCEPT ![One(hit)] =
                     [@ EXCEPT !.totalQuantity = @ + l.quantity,
                               !.orders = Append(@, ref)]]

\* Math.ceil(a / b) on whole numbers, a >= 0 and b > 0
CeilDiv(a, b) == (a + b - 1) \div b

\* the (totalQuantity, wasteBuffer, yieldPerUnit) with totalQuantity <= 400,
\* wasteBuffer 0 or 10 percent and yieldPerUnit 8 or 10 for which the doubles
\* totalQuantity * (1 + wasteBuffer) / yieldPerUnit lie above the whole number
\* the exact quotient is (100 * 1.1 is 110.00000000000001, and that divided by
\* 10 is 11.000000000000002)
FloatExcess == {<<100, 10, 10>>, <<200, 10, 10>>, <<400, 10, 10>>, <<400, 10, 8>>}

\* Math.ceil(requiredQuantity / yieldPerUnit)
UnitsNeeded(totalQuantity, opts, yieldPerUnit) ==
    IF opts.includeBuffer
    THEN CeilDiv(totalQuantity * (100 + opts.wasteBuffer), 100 * yieldPerUnit)
         + (IF <<totalQuantity, opts.wasteBuffer, yieldPerUnit>> \in FloatExcess
            THEN 1 ELSE 0)
    ELSE CeilDiv(totalQuantity, yieldPerUnit)

\* ProductionBatch.count of the open batches of a crop type sown on sowDate
ExistingBatches(accountId, cropTypeId, sowDate) ==
    Cardinality({b \in prodBatches :
                    /\ b.accountId = accountId
                    /\ b.cropTypeId = cropTypeId
                    /\ b.plannedSowDate = sowDate
                    /\ b.status \notin {"harvested", "disposed", "cancelled"}})

\* the plan item pushed for one entry of demandMap
PlanItemFor(accountId, demand, opts) ==
    LET cropType == CropType(demand.cropTypeId)
        growDays == cropType.blackoutDays + OrElse(cropType.growthDays, 7)
        sowDate == demand.deliveryDate - growDays
        yieldPerUnit == OrElse(cropType.expectedYield, 8)
        unitsNeeded == UnitsNeeded(demand.totalQuantity, opts, yieldPerUnit)
        existingBatches == ExistingBatches(accountId, demand.cropTypeId, sowDate)
    IN [cropTypeId |-> demand.cropTypeId, category |-> cropType.category,
        sowDate |-> sowDate, harvestDate |-> demand.deliveryDate,
        demandQuantity |-> demand.totalQuantity,
        requiredQuantity |-> IF opts.includeBuffer
                             THEN demand.totalQuantity * (100 + opts.wasteBuffer)
                             ELSE demand.totalQuantity * 100,
        yieldPerUnit |-> yieldPerUnit, unitsNeeded |-> unitsNeeded,
        existingBatches |-> existingBatches,
        additionalUnitsNeeded |-> IF unitsNeeded > existingBatches
                                  THEN unitsNeeded - existingBatches ELSE 0,
        orders |-> demand.orders]

\* sowingPlan.sort by sowDate (stable)
RECURSIVE SortBySowDate(_)
SortBySowDate(plan) ==
    IF plan = <<>> THEN <<>>
    ELSE LET k == CHOOSE i \in 1..Len(plan) :
                    /\ \A j \in 1..Len(plan) : plan[i].sowDate <= plan[j].sowDate
                    /\ \A j \in 1..(i - 1) : plan[j].sowDate > plan[i].sowDate
         IN <<plan[k]>> \o SortBySowDate(SubSeq(plan, 1, k - 1)
                                            \o SubSeq(plan, k + 1, Len(plan)))

\* the persisted entities of the services
Tables == <<standingOrders, svcOrders, prodBatches, harvests, svcTasks>>

PlanStart(w, a, opts) ==
    /\ wpc[w] = "idle"
    /\ nsvc' = nsvc + 1
    /\ wloc' = [wloc EXCEPT ![w] =
                  [NoWloc EXCEPT !.op = "plan", !.accountId = a, !.opts = opts,
                                 !.todo = DemandMap(DemandLines(PlanOrders(a, opts))),
                                 !.snap = Tables]]
    /\ wpc' = [wpc EXCEPT ![w] = "p_count"]
    /\ UNCHANGED <<standingOrders, svcOrders, svcNext, sres>>
    /\ UNCHANGED <<varsC, varsP>>

\* one turn of the loop over demandMap; after the last one the sort and the return
PlanLoop(w) ==
    /\ wpc[w] = "p_count"
    /\ LET l == wloc[w]
       IN IF l.todo = <<>>
          THEN /\ wpc' = [wpc EXCEPT ![w] = "idle"]
               /\ sres' = [NoSres EXCEPT !.op = "plan", !.ok = TRUE,
                                         !.opts = l.opts, !.snap = l.snap,
                                         !.plan = SortBySowDate(l.plan)]
               /\ UNCHANGED wloc
          ELSE /\ wloc' = [wloc EXCEPT
                             ![w].plan = Append(l.plan,
                                           PlanItemFor(l.accountId, Head(l.todo), l.opts)),
                             ![w].todo = Tail(l.todo)]
               /\ UNCHANGED <<wpc, sres>>
    /\ UNCHANGED <<standingOrders, svcOrders, svcNext, nsvc>>
    /\ UNCHANGED <<varsC, varsP>>

---------------------------------------------------------------------------
(* PlanningService.createBatchesFromPlan *)

\* variant that orders every unit the plan item needs
BatchDataFromPlan_unitsNeeded(item) ==
    [cropTypeId |-> item.cropTypeId,
     productionType |-> IF item.category = "mushroom" THEN "mushroom_in_house"
                        ELSE "microgreens_tray",
     quantity |-> item.unitsNeeded,
     plannedSowDate |-> item.sowDate, generateTasks |-> TRUE]

\* the batchData handed to createBatch for a plan item
BatchDataFromPlan(item) ==
    [cropTypeId |-> item.cropTypeId,
     productionType |-> IF item.category = "mushroom" THEN "mushroom_in_house"
                        ELSE "microgreens_tray",
     quantity |-> item.additionalUnitsNeeded,
     plannedSowDate |-> item.sowDate, generateTasks |-> TRUE]

FromPlanStart(w, a, planItems) ==
    /\ wpc[w] = "idle"
    /\ nsvc' = nsvc + 1
    /\ wloc' = [wloc EXCEPT ![w] =
                  [NoWloc EXCEPT !.op = "fromPlan", !.accountId = a,
                                 !.todo = planItems, !.plan = planItems,
                                 !.snap = Tables]]
    /\ wpc' = [wpc EXCEPT ![w] = "p_next"]
    /\ UNCHANGED <<standingOrders, svcOrders, svcNext, sres>>
    /\ UNCHANGED <<varsC, varsP>>

\* one turn of the loop over planItems, up to the call of createBatch
FromPlanNext(w) ==
    /\ wpc[w] = "p_next"
    /\ LET l == wloc[w]
       IN IF l.todo = <<>>
          THEN /\ wpc' = [wpc EXCEPT ![w] = "idle"]
               /\ sres' = [NoSres EXCEPT !.op = "fromPlan", !.ok = TRUE,
                                         !.made = l.made, !.plan = l.plan,
                                         !.snap = l.snap]
               /\ UNCHANGED wloc
          ELSE IF Head(l.todo).additionalUnitsNeeded <= 0
          THEN /\ wloc' = [wloc EXCEPT ![w].todo = Tail(l.todo)]
               /\ UNCHANGED <<wpc, sres>>
          ELSE /\ wloc' = [wloc EXCEPT ![w].todo = Tail(l.todo),
                                       ![w].bdata = BatchDataFromPlan(Head(l.todo))]
               /\ wpc' = [wpc EXCEPT ![w] = "b_code"]
               /\ UNCHANGED sres
    /\ UNCHANGED <<standingOrders, svcOrders, svcNext, nsvc>>
    /\ UNCHANGED <<varsC, varsP>>

---------------------------------------------------------------------------
(* Specification of the order controller *)

T0 == 100    \* a target date of the explored requests (a day number)

CreateBodies ==
    { Single("harvest", T0, 1, <<Item("c1", 16, 2)>>),
      Single("start", T0, 1, <<Item("c2", 8, 1), Item("c3", 4, 5)>>),
      Single("harvest", T0, 0, <<Item("cx", 5, 3)>>),
      Single("start", T0, 0, <<Item("c3", 4, 5), Item("cx", 5, 3)>>),
      Single("harvest", T0, 1, <<Item("c1", 16, 2), Item("c2", 8, 1)>>),
      Single("harvest", T0, 1, <<>>),
      [Single("harvest", T0, 1, <<Item("c1", 16, 2)>>) EXCEPT !.customerId = {"kx"}],
      Recurring(T0, <<Item("c3", 4, 5)>>, "weekly", T0 + 7) }

Patches ==
    { Patch({}, {}, {}, {}, {}),
      Patch({}, {}, {}, {<<Item("c2", 8, 1), Item("c3", 4, 5)>>}, {}),
      Patch({}, {}, {}, {<<Item("c1", 3, 3)>>}, {}),
      Patch({}, {}, {}, {<<Item("c3", 4, 5), Item("cx", 5, 3)>>}, {}),
      Patch({}, {}, {}, {<<Item("c1", 16, 2), Item("c2", 8, 1)>>}, {}),
      Patch({"start"}, {}, {}, {}, {}),
      Patch({}, {T0 + 2}, {0}, {}, {}),
      Patch({}, {}, {}, {}, {"cancelled"}),
      Patch({}, {}, {}, {<<Item("c1", 3, 3)>>}, {"cancelled"}),
      Patch({}, {}, {}, {}, {"completed"}) }

OrderIds == {o.id : o \in orders}

\* the explored updateTask requests complete a harvest task
DoneTypes == {"harvest"}

Init ==
    /\ orders = {}
    /\ batches = {}
    /\ tasks = {}
    /\ nextId = 1
    /\ pc = "idle"
    /\ req = [op |-> "none", user |-> "u1", id |-> 0, body |-> NoBody]
    /\ loc = NoLoc
    /\ res = NoRes
    /\ nreq = 0
    /\ standingOrders = {}
    /\ svcOrders = {}
    /\ svcNext = 1
    /\ wpc = [w \in Workers |-> "idle"]
    /\ wloc = [w \in Workers |-> NoWloc]
    /\ sres = NoSres
    /\ nsvc = 0
    /\ prodBatches = {}
    /\ harvests = {}
    /\ svcTasks = {}

Next ==
    \/ \E b \in CreateBodies : nreq < MaxRequests /\ StartCreate("u1", b)
    \/ CreateInsertOrder
    \/ GenItem
    \/ GenTasks
    \/ \E id \in OrderIds, b \in Patches :
          nreq < MaxRequests /\ StartUpdate("u1", id, b)
    \/ \E id \in OrderIds :
          /\ nreq < MaxRequests
          /\ StartUpdate("u2", id, Patch({}, {}, {}, {}, {"cancelled"}))
    \/ UpdateDestroyTasks
    \/ UpdateDestroyBatches
    \/ UpdateSave
    \/ \E u \in Users, id \in OrderIds : nreq < MaxRequests /\ StartDelete(u, id)
    \/ DeleteDestroyTasks
    \/ DeleteDestroyBatches
    \/ DeleteDestroyOrder
    \/ \E t \in {x \in tasks : x.type \in DoneTypes} : UpdateTask("u1", t.id)
    \/ Crash

Spec == Init /\ [][Next]_vars

---------------------------------------------------------------------------
(* Properties of the order controller *)

TasksOf(oid) == {t \in tasks : t.orderId = oid}
BatchesOf(oid) == {b \in batches : b.orderId = oid}
TaskIds == {t.id : t \in tasks}
BatchIds == {b.id : b \in batches}

\* rows in insertion order (primary keys grow with every insert)
RECURSIVE SeqById(_)
SeqById(S) ==
    IF S = {} THEN <<>>
    ELSE LET m == CHOOSE x \in S : \A y \in S : x.id <= y.id
         IN <<m>> \o SeqById(S \ {m})

Shape(t) == <<t.type, t.date, t.cropId>>
ShapeSeq(rows) == [k \in 1..Len(rows) |-> Shape(rows[k])]

\* the expansion the specification prescribes for the items whose crop
\* resolves, H being the harvest date: microgreens soak (only with a soak
\* time) at H - g - 1, plant at H - g, uncover at H - (g - b), harvest at H;
\* mushrooms introduce at H - g, harvest at H
RECURSIVE ExpandItems(_, _)
ExpandItems(items, H) ==
    IF items = <<>> THEN <<>>
    ELSE LET c == Head(items).cropId
             g == Crop(c).growthDays
             b == Crop(c).blackoutDays
             one == IF c \notin Crops THEN <<>>
                    ELSE IF Crop(c).category = "microgreens"
                    THEN (IF Crop(c).soakTime > 0
                          THEN << <<"soak", H - g - 1, c>> >> ELSE <<>>)
                         \o << <<"plant", H - g, c>>,
                               <<"uncover", H - (g - b), c>>,
                               <<"harvest", H, c>> >>
                    ELSE << <<"introduce", H - g, c>>, <<"harvest", H, c>> >>
         IN one \o ExpandItems(Tail(items), H)

Expansion(o) ==
    ExpandItems(o.items, o.deliveryDate - o.deliveryOffset)
        \o << <<"delivery", o.deliveryDate, "none">> >>

MissingCrop(items) == \E i \in 1..Len(items) : items[i].cropId \notin Crops

\* C3: a createOrder whose items name a crop that does not resolve answers with
\* an error and leaves no order, batch or task of that call in the database
C3_MissingCropRejects ==
    (/\ pc = "idle"
     /\ res.op = "create"
     /\ res.code # "crash"
     /\ req.body.items # {}
     /\ MissingCrop(One(req.body.items)))
    => /\ ~res.ok
       /\ \A o \in orders : o.id < res.first
       /\ \A b \in batches : b.id < res.first
       /\ \A t \in tasks : t.id < res.first

\* C4: whenever no request is in flight (also after a request that failed or
\* died), every stored order that is not cancelled has its complete generated
\* task set
C4_NoOrderWithoutTasks ==
    pc = "idle" =>
        \A o \in orders :
            o.status # "cancelled" => ShapeSeq(SeqById(TasksOf(o.id))) = Expansion(o)

\* C5: after a successful deleteOrder(X) the order X is gone, no task and no
\* batch carries orderId = X, and none of the tasks and batches X had when the
\* request started is left in the database
C5_DeleteCascades ==
    (pc = "idle" /\ res.op = "delete" /\ res.ok)
    => /\ \A o \in orders : o.id # req.id
       /\ TasksOf(req.id) = {}
       /\ BatchesOf(req.id) = {}
       /\ TaskIds \cap res.pre = {}
       /\ BatchIds \cap res.preB = {}

C5_Witness ==
    /\ pc = "idle" /\ res.op = "delete" /\ res.ok
    /\ Cardinality(res.pre) >= 5
    /\ Cardinality(res.preB) >= 2
    /\ res.preDone

LongestGrowth(items) ==
    LET gs == {Crop(items[i].cropId).growthDays :
                  i \in {j \in 1..Len(items) : items[j].cropId \in Crops}}
    IN IF gs = {} THEN 0 ELSE CHOOSE g \in gs : \A h \in gs : h <= g

BatchTasks(b) == SeqById({t \in tasks : t.batchId = b.id})

MicrogreenBatchOk(b) ==
    LET ts == BatchTasks(b)
        crop == Crop(b.cropId)
        g == crop.growthDays
        H == ts[Len(ts)].date
        k == IF crop.soakTime > 0 THEN 1 ELSE 0
    IN /\ [i \in 1..Len(ts) |-> ts[i].type] =
            (IF crop.soakTime > 0 THEN <<"soak">> ELSE <<>>)
                \o <<"plant", "uncover", "harvest">>
       /\ H = b.harvestDate
       /\ crop.soakTime > 0 => ts[1].date = H - g - 1
       /\ ts[k + 1].date = H - g
       /\ ts[k + 2].date = H - (g - crop.blackoutDays)

Touched == IF res.op = "create" THEN {res.created[i] : i \in 1..Len(res.created)}
           ELSE {req.id}

C9_MicrogreenTaskOrder ==
    /\ \A b \in batches :
          (Crop(b.cropId).category = "microgreens" /\ BatchTasks(b) # <<>>)
              => MicrogreenBatchOk(b)
    /\ (pc = "idle" /\ res.ok /\ res.op \in {"create", "update"})
       => \A o \in {x \in orders : x.id \in Touched /\ x.status # "cancelled"} :
             \A i \in 1..Len(o.items) :
                (/\ o.items[i].cropId \in Crops
                 /\ Crop(o.items[i].cropId).category = "microgreens")
                => \E b \in BatchesOf(o.id) :
                      /\ b.cropId = o.items[i].cropId
                      /\ BatchTasks(b) # <<>>

\* growthDays 10, blackoutDays 4, with a soak time: soak 11, plant 10 and
\* uncover 6 days before the harvest
C9_Witness ==
    \E b \in batches :
        /\ Crop(b.cropId).growthDays = 10 /\ Crop(b.cropId).blackoutDays = 4
        /\ ShapeSeq(BatchTasks(b)) =
              << <<"soak", b.harvestDate - 11, b.cropId>>,
                 <<"plant", b.harvestDate - 10, b.cropId>>,
                 <<"uncover", b.harvestDate - 6, b.cropId>>,
                 <<"harvest", b.harvestDate, b.cropId>> >>

\* C21: after a successful createOrder with dateType harvest, every harvest
\* task of the order it stored (the first order of a recurring request) is
\* dated at the request's targetDate, whatever the deliveryOffset
C21_HarvestTaskAtTarget ==
    (/\ pc = "idle" /\ res.op = "create" /\ res.ok /\ res.created # <<>>
     /\ One(req.body.dateType) = "harvest")
    => \A t \in TasksOf(res.created[1]) :
          t.type = "harvest" => t.date = One(req.body.targetDate)

\* C22: a createOrder for an existing customer whose items all name existing
\* crops (two of them possibly the same crop, or crops whose names begin with
\* the same three letters) succeeds unless the process dies, and every order
\* it stored then has one batch per item, every production task of the order
\* referencing a batch of the order
C22_OneBatchPerItem ==
    (/\ pc = "idle" /\ res.op = "create"
     /\ res.code \notin {"crash", "400"}
     /\ req.body.items # {}
     /\ ~MissingCrop(One(req.body.items)))
    => /\ res.ok
       /\ \A k \in 1..Len(res.created) :
             LET o == OrderById(res.created[k])
             IN /\ Cardinality(BatchesOf(o.id)) = Len(o.items)
                /\ \A t \in TasksOf(o.id) :
                      t.type # "delivery"
                      => \E b \in BatchesOf(o.id) :
                            b.id = t.batchId /\ b.cropId = t.cropId

\* C23: a successful updateOrder whose patch carries neither items nor a date
\* field (dateType, targetDate, deliveryOffset), and no status or customer
\* either (notes only), leaves the order with the tasks and batches it had:
\* the same keys, and a task completed before is still completed
C23_PlainPatchKeepsTasks ==
    (/\ pc = "idle" /\ res.op = "update" /\ res.ok
     /\ req.body.items = {} /\ req.body.dateType = {}
     /\ req.body.targetDate = {} /\ req.body.deliveryOffset = {}
     /\ req.body.status = {} /\ req.body.customerId = {})
    => /\ {t.id : t \in TasksOf(req.id)} = res.pre
       /\ {b.id : b \in BatchesOf(req.id)} = res.preB
       /\ res.preDone => \E t \in TasksOf(req.id) : t.status # "pending"

\* C27: after a successful createOrder or updateOrder, every order the
\* request stored or updated has as deliveryDate the delivery-date rule applied
\* to its own stored dateType, targetDate, deliveryOffset and items
C27_DeliveryDateOfStoredFields ==
    (pc = "idle" /\ res.ok /\ res.op \in {"create", "update"})
    => \A o \in {x \in orders : x.id \in Touched} :
          o.deliveryDate =
              DeliveryDateFor(o.dateType, o.targetDate, o.deliveryOffset, o.items)

---------------------------------------------------------------------------
(* Specification of recurring order creation: createOrder requests that carry
   a recurrence, handled as above *)

RecurringBodies ==
    { Recurring(T0, <<Item("c3", 4, 5)>>, "weekly", T0 + 21),
      Recurring(T0, <<Item("c3", 4, 5)>>, "weekly", T0 + 20),
      Recurring(T0, <<Item("c2", 8, 1)>>, "biweekly", T0 + 28),
      Recurring(T0, <<Item("c3", 4, 5)>>, "monthly", T0 + 30),
      Recurring(T0, <<Item("c3", 4, 5)>>, "monthly", T0 + 29),
      Recurring(T0, <<Item("c3", 4, 5)>>, "weekly", T0 - 1),
      Recurring(T0, <<Item("c3", 4, 5)>>, "daily", T0 + 21),
      Recurring(T0, <<Item("c3", -4, 5)>>, "weekly", T0 + 7),
      Recurring(T0, <<>>, "weekly", T0 + 7),
      [Recurring(T0, <<Item("c1", 16, 2), Item("c3", 4, 5)>>, "weekly", T0 + 6)
          EXCEPT !.deliveryOffset = {1}],
      [Recurring(T0, <<Item("c2", 8, 1), Item("c3", 4, 5)>>, "biweekly", T0 + 25)
          EXCEPT !.dateType = {"start"}, !.deliveryOffset = {1}],
      [Recurring(T0, <<Item("c3", 4, 5)>>, "weekly", T0 + 21)
          EXCEPT !.recurringEndDate = {}] }

NextRecurring ==
    \/ \E b \in RecurringBodies : nreq < MaxSeries /\ StartCreate("u1", b)
    \/ CreateInsertOrder
    \/ GenItem
    \/ GenTasks
    \/ Crash

SpecRecurring == Init /\ [][NextRecurring]_vars

C18_SeriesTagged ==
    (/\ pc = "idle" /\ res.op = "create" /\ res.ok
     /\ req.body.isRecurring
     /\ req.body.recurringEndDate # {}
     /\ res.created # <<>>)
    => \E p \in 1..nextId :
          \A k \in 1..Len(res.created) :
             LET o == OrderById(res.created[k])
             IN /\ o.parentOrderId = p
                /\ o.isRecurring
                /\ o.frequency = {req.body.frequency}
                /\ o.recurringEndDate = req.body.recurringEndDate

\* malformed input: an empty item list, a negative quantity, or a recurrence
\* with a frequency other than weekly, biweekly, monthly
Malformed(b) ==
    \/ One(b.items) = <<>>
    \/ \E i \in 1..Len(One(b.items)) : One(b.items)[i].quantity < 0
    \/ b.isRecurring /\ b.frequency \notin {"weekly", "biweekly", "monthly"}

\* C19: a createOrder with malformed input answers with an error and writes
\* nothing: no order, batch or task of that call is in the database
C19_MalformedRejected ==
    (/\ pc = "idle"
     /\ res.op = "create"
     /\ res.code # "crash"
     /\ req.body.items # {}
     /\ Malformed(req.body))
    => /\ ~res.ok
       /\ res.created = <<>>
       /\ \A o \in orders : o.id < res.first
       /\ \A b \in batches : b.id < res.first
       /\ \A t \in tasks : t.id < res.first

---------------------------------------------------------------------------
(* Specification of standing-order generation, one run after the other *)

SItem(p, q) == [productId |-> p, quantity |-> q]

Template(deliveryDays, generateDaysAhead, isPaused, startDate, endDate) ==
    [deliveryDays |-> deliveryDays, generateDaysAhead |-> generateDaysAhead,
     autoGenerate |-> TRUE, isActive |-> TRUE, isPaused |-> isPaused,
     pausedUntil |-> {},
     startDate |-> startDate, endDate |-> endDate,
     items |-> <<SItem("p1", 2)>>]

ForDates == {T0, T0 + 1}

Templates ==
    { Template({getDay(T0)}, 0, FALSE, T0 - 1, {}),
      Template({getDay(T0)}, 1, FALSE, T0 - 1, {}),
      Template({getDay(T0), getDay(T0 + 1)}, 1, FALSE, T0 - 1, {T0}),
      Template({getDay(T0 + 1)}, 0, FALSE, T0 - 1, {}),
      Template({getDay(T0)}, 0, TRUE, T0 - 1, {}),
      Template({getDay(T0), getDay(T0 + 1)}, 0, FALSE, T0 + 1, {}),
      Template({getDay(T0), getDay(T0 + 1)}, 1, FALSE, T0 - 1, {}) }

NextGenerate ==
    \/ \E d \in Templates :
          Cardinality(standingOrders) < MaxStanding /\ CreateStandingOrder("a1", d)
    \/ \E f \in ForDates : nsvc < MaxRuns /\ GenStart("w1", "a1", f)
    \/ GenLoop("w1")
    \/ SvcNumber("w1")
    \/ SvcInsert("w1")
    \/ GenStamp("w1")

SpecGenerate == Init /\ [][NextGenerate]_vars

IsDue(so, forDate) ==
    /\ so.isActive
    /\ so.autoGenerate
    /\ ~so.isPaused
    /\ so.startDate <= forDate
    /\ (so.endDate = {} \/ One(so.endDate) >= forDate)
    /\ getDay(forDate) \in so.deliveryDays

\* the orders the last finished generation run created
MadeOrders == {o \in svcOrders : \E k \in 1..Len(sres.made) : sres.made[k] = o.id}

---------------------------------------------------------------------------
(* Specification of pausing: standing orders delivered on the generation date
   are paused and resumed while generation runs come and go *)

PauseTemplates ==
    { Template({getDay(T0), getDay(T0 + 1)}, 0, FALSE, T0 - 1, {}),
      Template({getDay(T0)}, 0, TRUE, T0 - 1, {}) }

PausedUntils == {{}, {T0 - 1}, {T0 + 5}}

StandingKeys == {so.id : so \in standingOrders}

NextPause ==
    \/ \E d \in PauseTemplates :
          Cardinality(standingOrders) < MaxStanding /\ CreateStandingOrder("a1", d)
    \/ \E id \in StandingKeys, u \in PausedUntils :
          nsvc < MaxPauseCalls /\ PauseStandingOrder(id, u)
    \/ \E id \in StandingKeys : nsvc < MaxPauseCalls /\ ResumeStandingOrder(id)
    \/ \E f \in ForDates : nsvc < MaxPauseCalls /\ GenStart("w1", "a1", f)
    \/ GenLoop("w1")
    \/ SvcNumber("w1")
    \/ SvcInsert("w1")
    \/ GenStamp("w1")

SpecPause == Init /\ [][NextPause]_vars

---------------------------------------------------------------------------
(* Specification of concurrent generation: two workers, and standing orders
   whose orders are delivered on the generation date (generateDaysAhead = 0) *)

SameDayTemplates == {d \in Templates : d.generateDaysAhead = 0}

NextConcurrent ==
    \/ \E d \in SameDayTemplates :
          Cardinality(standingOrders) < MaxStanding /\ CreateStandingOrder("a1", d)
    \/ \E w \in Workers, f \in ForDates : nsvc < MaxRuns /\ GenStart(w, "a1", f)
    \/ \E w \in Workers : GenLoop(w)
    \/ \E w \in Workers : SvcNumber(w)
    \/ \E w \in Workers : SvcInsert(w)
    \/ \E w \in Workers : GenStamp(w)

SpecConcurrent == Init /\ [][NextConcurrent]_vars

---------------------------------------------------------------------------
(* Specification of the order totals: either the order controller or the
   order service runs (each has its own database) *)

SvcItem(p, q, u) == [productId |-> p, quantity |-> q, unitPrice |-> u]

SvcData(discount, tax, items) ==
    [NoData EXCEPT !.customerId = "k1", !.deliveryDate = T0,
                   !.discount = discount, !.tax = tax, !.items = items]

SvcDatas ==
    { SvcData(0, 0, <<SvcItem("p1", 2, 0)>>),
      SvcData(1, 0, <<SvcItem("p1", 2, 4), SvcItem("p2", 1, 0)>>),
      SvcData(0, 2, <<>>),
      SvcData(0, 0, <<SvcItem("px", 1, 2)>>) }

SvcPatch(discount, tax, items) == [discount |-> discount, tax |-> tax, items |-> items]

SvcPatches ==
    { SvcPatch({2}, {}, {}),
      SvcPatch({}, {}, {<<SvcItem("p2", 3, 0)>>}),
      SvcPatch({1}, {2}, {<<SvcItem("p1", 1, 4), SvcItem("p2", 2, 0)>>}),
      SvcPatch({}, {}, {<<SvcItem("px", 1, 2)>>}) }

SvcOrderIds == {o.id : o \in svcOrders}

NextTotals ==
    \/ \E b \in CreateBodies :
          nsvc = 0 /\ nreq < MaxRequests /\ StartCreate("u1", b)
    \/ CreateInsertOrder
    \/ GenItem
    \/ GenTasks
    \/ \E id \in OrderIds, b \in Patches :
          nreq < MaxRequests /\ StartUpdate("u1", id, b)
    \/ UpdateDestroyTasks
    \/ UpdateDestroyBatches
    \/ UpdateSave
    \/ \E id \in OrderIds : nreq < MaxRequests /\ StartDelete("u1", id)
    \/ DeleteDestroyTasks
    \/ DeleteDestroyBatches
    \/ DeleteDestroyOrder
    \/ Crash
    \/ \E d \in SvcDatas :
          nreq = 0 /\ nsvc < MaxCalls /\ SvcCreateOrder("w1", "a1", d)
    \/ SvcNumber("w1")
    \/ SvcInsert("w1")
    \/ \E id \in SvcOrderIds, d \in SvcPatches :
          nsvc < MaxCalls /\ SvcUpdateOrder("w1", id, d)
    \/ \E id \in SvcOrderIds : nsvc < MaxCalls /\ SvcDeleteOrder("w1", id)

SpecTotals == Init /\ [][NextTotals]_vars

\* the sum of quantity x unit price over a list of items
Sigma(items, price(_)) ==
    LET f[i \in 0..Len(items)] ==
            IF i = 0 THEN 0 ELSE f[i - 1] + items[i].quantity * price(items[i])
    IN f[Len(items)]

ControllerPrice(item) == item.price
ServicePrice(item) == item.unitPrice

---------------------------------------------------------------------------
(* Specification of concurrent code generation: createOrder and createBatch
   calls of one account, on two workers, with bodies that are valid *)

BatchData(t, productionType, quantity, plannedSowDate) ==
    [cropTypeId |-> t, productionType |-> productionType, quantity |-> quantity,
     plannedSowDate |-> plannedSowDate, generateTasks |-> TRUE]

BatchDatas ==
    { BatchData("t1", "microgreens_tray", 2, T0),
      BatchData("t2", "mushroom_in_house", 1, T0),
      BatchData("t3", "mushroom_rtf", 1, T0) }

ValidSvcDatas == {d \in SvcDatas : ~UnknownProduct(d.items)}

NextCodes ==
    \/ \E w \in Workers, d \in ValidSvcDatas :
          nsvc < MaxCalls /\ SvcCreateOrder(w, "a1", d)
    \/ \E w \in Workers : SvcNumber(w)
    \/ \E w \in Workers : SvcInsert(w)
    \/ \E w \in Workers, d \in BatchDatas :
          nsvc < MaxCalls /\ BatchCreate(w, "a1", d)
    \/ \E w \in Workers : BatchCode(w)
    \/ \E w \in Workers : BatchInsert(w)

SpecCodes == Init /\ [][NextCodes]_vars

\* C14: createOrder (createBatch) calls of one account that interleave never
\* hold the same order number (batch code), every such call completes
\* successfully, and the stored orders (batches) carry distinct numbers (codes)
C14_CodesNeverCollide ==
    /\ \A w1, w2 \in Workers :
          (w1 # w2 /\ wpc[w1] = "insert" /\ wpc[w2] = "insert")
             => wloc[w1].orderNumber # wloc[w2].orderNumber
    /\ \A w1, w2 \in Workers :
          (w1 # w2 /\ wpc[w1] = "b_insert" /\ wpc[w2] = "b_insert")
             => wloc[w1].batchCode # wloc[w2].batchCode
    /\ sres.op \in {"create", "createBatch"} => sres.ok
    /\ \A o1, o2 \in svcOrders : o1.id # o2.id => o1.orderNumber # o2.orderNumber
    /\ \A b1, b2 \in prodBatches : b1.id # b2.id => b1.batchCode # b2.batchCode

---------------------------------------------------------------------------
(* Specification of the batch life cycle: batches are created, their status
   is set and harvests are recorded, one call after the other *)

StatusInputs == {"soaking", "planted", "harvested", "planned", "cancelled", "fruiting"}

BatchKeys == {b.id : b \in prodBatches}

NextBatches ==
    \/ \E d \in BatchDatas : nsvc < MaxOps /\ BatchCreate("w1", "a1", d)
    \/ BatchCode("w1")
    \/ BatchInsert("w1")
    \/ \E id \in BatchKeys, st \in StatusInputs :
          nsvc < MaxOps /\ UpdateStatus("w1", id, st)
    \/ \E id \in BatchKeys : nsvc < MaxOps /\ HarvestStart("w1", id, 1)
    \/ HarvestWrite("w1")

SpecBatches == Init /\ [][NextBatches]_vars

Mushroom(b) == b.productionType # "microgreens_tray"

HarvestsOf(id) == {h \in harvests : h.batchId = id}

\* C15: a recordHarvest call on an existing batch succeeds and leaves a
\* mushroom batch in status fruiting if its currentFlush was below maxFlushes
\* and in status harvested otherwise (a microgreen batch always in harvested);
\* a mushroom batch that recordHarvest moves to harvested has then exactly
\* maxFlushes recorded harvests, and currentFlush never exceeds maxFlushes
C15_FlushLoop ==
    /\ \A b \in prodBatches : Mushroom(b) => b.currentFlush <= b.maxFlushes
    /\ (wpc["w1"] = "idle" /\ sres.op = "harvest" /\ BatchById(sres.id) # {})
       => LET b == One(BatchById(sres.id))
          IN /\ sres.ok
             /\ b.status = IF Mushroom(b) /\ sres.flush < b.maxFlushes
                           THEN "fruiting" ELSE "harvested"
             /\ (Mushroom(b) /\ b.status = "harvested" /\ sres.from # "harvested")
                   => Cardinality(HarvestsOf(b.id)) = b.maxFlushes

TerminalStatus == {"harvested", "disposed", "cancelled"}

MicrogreenFlow ==
    <<"planned", "soaking", "planted", "blackout", "growing", "ready_to_harvest",
      "harvesting", "harvested">>

MushroomFlow == <<"planned", "inoculated", "incubating", "fruiting", "harvested">>

\* the edges of the status state machine of a production type
StatusEdge(productionType, from, to) ==
    LET flow == IF productionType = "microgreens_tray"
                THEN MicrogreenFlow ELSE MushroomFlow
    IN \/ from \notin TerminalStatus /\ to \in {"disposed", "cancelled"}
       \/ \E k \in 1..(Len(flow) - 1) : flow[k] = from /\ flow[k + 1] = to
       \/ productionType # "microgreens_tray" /\ from = "fruiting" /\ to = "fruiting"

\* C16: every status change a successful updateStatus or recordHarvest made
\* follows an edge of the state machine of the batch's production type
C16_StatusFollowsEdges ==
    (/\ wpc["w1"] = "idle" /\ sres.op \in {"status", "harvest"} /\ sres.ok
     /\ sres.from # sres.to)
    => StatusEdge(One(BatchById(sres.id)).productionType, sres.from, sres.to)

---------------------------------------------------------------------------
(* Specification of planning: orders and batches are created and closed, a
   sowing plan is generated and batches are created from it, one call after
   the other *)

PlanOrderData(deliveryDate, items) ==
    [NoData EXCEPT !.customerId = "k1", !.deliveryDate = deliveryDate, !.items = items]

PlanOrderDatas ==
    { PlanOrderData(T0, <<SvcItem("p1", 5, 0), SvcItem("p3", 3, 0), SvcItem("p2", 100, 0)>>),
      PlanOrderData(T0, <<SvcItem("p1", 45, 0)>>),
      PlanOrderData(T0 + 1, <<SvcItem("p1", 8, 0), SvcItem("p1", 8, 0)>>) }

PlanOptions(startDate, endDate, wasteBuffer, includeBuffer) ==
    [startDate |-> startDate, endDate |-> endDate, wasteBuffer |-> wasteBuffer,
     includeBuffer |-> includeBuffer]

PlanOpts ==
    { PlanOptions(T0, T0 + 1, 10, TRUE),
      PlanOptions(T0, T0, 0, TRUE),
      PlanOptions(T0, T0 + 1, 10, FALSE) }

PlanBatchDatas == { BatchData("t1", "microgreens_tray", 1, T0 - 14) }

NextPlan ==
    \/ \E d \in PlanOrderDatas :
          nsvc < MaxPlanCalls /\ SvcCreateOrder("w1", "a1", d)
    \/ SvcNumber("w1")
    \/ SvcInsert("w1")
    \/ \E id \in SvcOrderIds :
          nsvc < MaxPlanCalls /\ SvcOrderStatus("w1", id, "cancelled")
    \/ \E d \in PlanBatchDatas : nsvc < MaxPlanCalls /\ BatchCreate("w1", "a1", d)
    \/ BatchCode("w1")
    \/ BatchInsert("w1")
    \/ \E id \in BatchKeys : nsvc < MaxPlanCalls /\ UpdateStatus("w1", id, "disposed")
    \/ \E o \in PlanOpts : nsvc < MaxPlanCalls /\ PlanStart("w1", "a1", o)
    \/ PlanLoop("w1")
    \/ /\ nsvc < MaxPlanCalls
       /\ sres.op = "plan"
       /\ sres.ok
       /\ FromPlanStart("w1", "a1", sres.plan)
    \/ FromPlanNext("w1")

SpecPlan == Init /\ [][NextPlan]_vars

\* the quantity of crop type c in an order
CropQuantity(o, c) ==
    LET f[k \in 0..Len(o.items)] ==
            IF k = 0 THEN 0
            ELSE f[k - 1] + (IF Product(o.items[k].productId).cropTypeId = c
                             THEN o.items[k].quantity ELSE 0)
    IN f[Len(o.items)]

\* the quantity of crop type c in the orders os
RECURSIVE CropTotal(_, _)
CropTotal(os, c) ==
    IF os = {} THEN 0
    ELSE LET o == CHOOSE x \in os : TRUE
         IN CropQuantity(o, c) + CropTotal(os \ {o}, c)

\* the demand for crop type c on date d among the orders os
Demand(os, c, d) == CropTotal({o \in os : o.deliveryDate = d}, c)

\* C11: the plan a generateSowingPlan call returned has exactly one item for
\* each (crop type, delivery date) with demand among the orders in the date
\* range that are neither cancelled nor delivered, and no other item; its
\* demandQuantity is that demand, requiredQuantity = demand x (1 + wasteBuffer)
\* with the buffer and the demand without, unitsNeeded = ceil(requiredQuantity
\* / yieldPerUnit), existingBatches the number of open batches of the crop type
\* for the sow date and additionalUnitsNeeded = max(0, unitsNeeded -
\* existingBatches)
C11_SowingPlanItems ==
    (wpc["w1"] = "idle" /\ sres.op = "plan" /\ sres.ok)
    => LET opts == sres.opts
           plan == sres.plan
           os == {o \in sres.snap[2] :
                    /\ o.deliveryDate \in opts.startDate..opts.endDate
                    /\ o.status \notin {"cancelled", "delivered"}}
           pairs == {pr \in CropTypes \X (opts.startDate..opts.endDate) :
                        Demand(os, pr[1], pr[2]) > 0}
       IN /\ \A pr \in pairs :
                Cardinality({i \in 1..Len(plan) :
                                /\ plan[i].cropTypeId = pr[1]
                                /\ plan[i].harvestDate = pr[2]}) = 1
          /\ \A i \in 1..Len(plan) :
                LET it == plan[i]
                    demand == Demand(os, it.cropTypeId, it.harvestDate)
                IN /\ <<it.cropTypeId, it.harvestDate>> \in pairs
                   /\ it.demandQuantity = demand
                   /\ it.requiredQuantity =
                         IF opts.includeBuffer
                         THEN demand * (100 + opts.wasteBuffer) ELSE demand * 100
                   /\ it.unitsNeeded =
                         CeilDiv(it.requiredQuantity, 100 * it.yieldPerUnit)
                   /\ it.existingBatches =
                         Cardinality({b \in sres.snap[3] :
                                        /\ b.cropTypeId = it.cropTypeId
                                        /\ b.plannedSowDate = it.sowDate
                                        /\ b.status \notin TerminalStatus})
                   /\ it.additionalUnitsNeeded =
                         IF it.unitsNeeded > it.existingBatches
                         THEN it.unitsNeeded - it.existingBatches ELSE 0

Needed(item) == item.additionalUnitsNeeded > 0

\* C20: a generateSowingPlan call leaves every table as it found it; a
\* successful createBatchesFromPlan call creates, for the plan items with
\* additionalUnitsNeeded > 0 and in their order, one batch each, of that
\* quantity, crop type and sow date, creates no other batch and leaves the
\* orders untouched
C20_PlanningFrame ==
    /\ (wpc["w1"] = "idle" /\ sres.op = "plan") => Tables = sres.snap
    /\ (wpc["w1"] = "idle" /\ sres.op = "fromPlan" /\ sres.ok)
       => LET need == SelectSeq(sres.plan, Needed)
              made == sres.made
              old == {b.id : b \in sres.snap[3]}
          IN /\ Len(made) = Len(need)
             /\ {b.id : b \in prodBatches} = old \cup {made[k] : k \in 1..Len(made)}
             /\ sres.snap[3] \subseteq prodBatches
             /\ \A j, k \in 1..Len(made) : j # k => made[j] # made[k]
             /\ \A k \in 1..Len(made) :
                   /\ made[k] \notin old
                   /\ LET b == One(BatchById(made[k]))
                      IN /\ b.quantity = need[k].additionalUnitsNeeded
                         /\ b.cropTypeId = need[k].cropTypeId
                         /\ b.plannedSowDate = need[k].sowDate
                         /\ b.status = "planned"
             /\ <<standingOrders, svcOrders, harvests>> =
                   <<sres.snap[1], sres.snap[2], sres.snap[4]>>

\* a plan with an item that needs nothing more (one unit, one batch there) and
\* an item that needs twelve units, and the one batch of twelve made from it
C20_Witness ==
    /\ wpc["w1"] = "idle" /\ sres.op = "fromPlan" /\ sres.ok
    /\ \E i \in 1..Len(sres.plan) :
          /\ sres.plan[i].unitsNeeded = 1
          /\ sres.plan[i].existingBatches = 1
          /\ sres.plan[i].additionalUnitsNeeded = 0
    /\ Len(sres.made) = 1
    /\ One(BatchById(sres.made[1])).quantity = 12
    /\ Cardinality(prodBatches) = 2

\* C24: in a plan a generateSowingPlan call returned, an item of a microgreen
\* crop type has sowDate = deliveryDate - (blackoutDays + growthDays) and an
\* item of any other category has sowDate = deliveryDate
C24_SowDateByCategory ==
    (wpc["w1"] = "idle" /\ sres.op = "plan" /\ sres.ok)
    => \A i \in 1..Len(sres.plan) :
          LET it == sres.plan[i]
              cropType == CropType(it.cropTypeId)
              growDays == IF cropType.category = "microgreen"
                          THEN cropType.blackoutDays + cropType.growthDays ELSE 0
          IN it.sowDate = it.harvestDate - growDays

\* what a plan asks for: crop type, delivery date and units of every item
PlanNeeds(plan) ==
    [i \in 1..Len(plan) |->
        <<plan[i].cropTypeId, plan[i].harvestDate, plan[i].unitsNeeded>>]

\* C28: a generateSowingPlan call that follows a successful
\* createBatchesFromPlan, with no other call in between and asking for what the
\* materialized plan asked for, reports additionalUnitsNeeded = 0 for every
\* item
C28_PlanConverges ==
    [][(/\ sres.op = "fromPlan" /\ sres.ok
        /\ sres'.op = "plan" /\ sres'.ok
        /\ PlanNeeds(sres'.plan) = PlanNeeds(sres.plan))
       => \A i \in 1..Len(sres'.plan) :
             sres'.plan[i].additionalUnitsNeeded = 0]_vars

---------------------------------------------------------------------------
(* Properties of createBatch, under SpecBatches *)

HarvestTasksOf(id) == {t \in svcTasks : t.batchId = id /\ t.type = "harvest"}

\* C29: a batch a successful createBatch (task generation enabled) has stored
\* has exactly one harvest task, due on the batch's plannedHarvestDate
C29_HarvestTaskOnPlannedDate ==
    (wpc["w1"] = "idle" /\ sres.op = "createBatch" /\ sres.ok)
    => LET b == One(BatchById(sres.id))
       IN /\ Cardinality(HarvestTasksOf(b.id)) = 1
          /\ \A t \in HarvestTasksOf(b.id) : t.dueDate = b.plannedHarvestDate

---------------------------------------------------------------------------
(* Specification of harvest recording: a batch is created, then recordHarvest
   calls run on two workers and interleave at their awaits *)

HarvestQuantities == {1, 2}

NextHarvest ==
    \/ \E d \in BatchDatas : nsvc < MaxHarvestCalls /\ BatchCreate("w1", "a1", d)
    \/ BatchCode("w1")
    \/ BatchInsert("w1")
    \/ \E w \in Workers, id \in BatchKeys, q \in HarvestQuantities :
          nsvc < MaxHarvestCalls /\ HarvestStart(w, id, q)
    \/ \E w \in Workers : HarvestWrite(w)

SpecHarvest == Init /\ [][NextHarvest]_vars

\* the sum of the quantities of a set of harvest records
RECURSIVE HarvestTotal(_)
HarvestTotal(hs) ==
    IF hs = {} THEN 0
    ELSE LET h == CHOOSE x \in hs : TRUE
         IN h.quantity + HarvestTotal(hs \ {h})

\* C25: whenever no call is in flight, the actualYield of every batch is the sum
\* of the quantities of the harvest records stored for it
C25_YieldIsSumOfHarvests ==
    (\A w \in Workers : wpc[w] = "idle")
    => \A b \in prodBatches : b.actualYield = HarvestTotal(HarvestsOf(b.id))

---------------------------------------------------------------------------
(* Specification of two tenants: the requests of account a1 are served by
   worker w1 and those of account a2 by worker w2 (req.accountId is set by the
   authentication middleware); a create passes req.accountId to the service,
   the other controller methods pass req.params.id only.  One call at a
   time. *)

TenantOf(w) == IF w = "w1" THEN "a1" ELSE "a2"

AllIdle == \A w \in Workers : wpc[w] = "idle"

TenantOrderDatas == { SvcData(0, 0, <<SvcItem("p1", 2, 0)>>) }

TenantBatchDatas == { BatchData("t1", "microgreens_tray", 2, T0) }

TenantPatches == { SvcPatch({2}, {}, {}) }

NextTenants ==
    \/ \E w \in Workers, d \in TenantOrderDatas :
          nsvc < MaxTenantCalls /\ AllIdle /\ SvcCreateOrder(w, TenantOf(w), d)
    \/ \E w \in Workers : SvcNumber(w)
    \/ \E w \in Workers : SvcInsert(w)
    \/ \E w \in Workers, d \in TenantBatchDatas :
          nsvc < MaxTenantCalls /\ AllIdle /\ BatchCreate(w, TenantOf(w), d)
    \/ \E w \in Workers : BatchCode(w)
    \/ \E w \in Workers : BatchInsert(w)
    \/ \E w \in Workers, id \in SvcOrderIds :
          nsvc < MaxTenantCalls /\ AllIdle /\ SvcOrderStatus(w, id, "confirmed")
    \/ \E w \in Workers, id \in SvcOrderIds, p \in TenantPatches :
          nsvc < MaxTenantCalls /\ AllIdle /\ SvcUpdateOrder(w, id, p)
    \/ \E w \in Workers, id \in SvcOrderIds :
          nsvc < MaxTenantCalls /\ AllIdle /\ SvcDeleteOrder(w, id)
    \/ \E w \in Workers, id \in BatchKeys :
          nsvc < MaxTenantCalls /\ AllIdle /\ UpdateStatus(w, id, "planted")
    \/ \E w \in Workers, id \in BatchKeys :
          nsvc < MaxTenantCalls /\ AllIdle /\ HarvestStart(w, id, 1)
    \/ \E w \in Workers : HarvestWrite(w)

SpecTenants == Init /\ [][NextTenants]_vars

\* the rows that do not belong to account a
OthersRows(a) ==
    <<{o \in svcOrders : o.accountId # a},
      {b \in prodBatches : b.accountId # a},
      {h \in harvests : \E b \in prodBatches : b.id = h.batchId /\ b.accountId # a},
      {t \in svcTasks : t.accountId # a}>>

\* the order or batch with key id belongs to another account than a
ForeignTo(a, id) ==
    \/ \E o \in svcOrders : o.id = id /\ o.accountId # a
    \/ \E b \in prodBatches : b.id = id /\ b.accountId # a

\* C26: an update, status change, harvest recording or delete call of a tenant
\* leaves every order, batch, harvest record and task of the other tenants
\* unchanged, and fails when the id it names is that of another tenant's order
\* or batch
C26_TenantIsolation ==
    [][\A w \in Workers :
          (/\ sres'.by = w
           /\ sres'.op \in {"update", "orderStatus", "delete", "status", "harvest"}
           /\ (nsvc' = nsvc + 1 \/ wpc'[w] # wpc[w]))
          => /\ OthersRows(TenantOf(w))' = OthersRows(TenantOf(w))
             /\ ForeignTo(TenantOf(w), sres'.id) => ~sres'.ok]_vars

---------------------------------------------------------------------------
(* Specification of numbering: either the order controller creates and
   deletes orders, or the two tenants create orders and batches through the
   services; one request at a time, none dies *)

NumberBodies ==
    { Single("harvest", T0, 0, <<Item("c3", 4, 5)>>),
      Recurring(T0, <<Item("c3", 4, 5)>>, "weekly", T0 + 7) }

NextNumbers ==
    \/ \E b \in NumberBodies :
          nsvc = 0 /\ nreq < MaxNumberRequests /\ StartCreate("u1", b)
    \/ CreateInsertOrder
    \/ GenItem
    \/ GenTasks
    \/ \E id \in OrderIds : nreq < MaxNumberRequests /\ StartDelete("u1", id)
    \/ DeleteDestroyTasks
    \/ DeleteDestroyBatches
    \/ DeleteDestroyOrder
    \/ \E w \in Workers, d \in TenantOrderDatas :
          /\ nreq = 0 /\ nsvc < MaxNumberCalls /\ AllIdle
          /\ SvcCreateOrder(w, TenantOf(w), d)
    \/ \E w \in Workers : SvcNumber(w)
    \/ \E w \in Workers : SvcInsert(w)
    \/ \E w \in Workers, d \in TenantBatchDatas :
          /\ nreq = 0 /\ nsvc < MaxNumberCalls /\ AllIdle
          /\ BatchCreate(w, TenantOf(w), d)
    \/ \E w \in Workers : BatchCode(w)
    \/ \E w \in Workers : BatchInsert(w)

SpecNumbers == Init /\ [][NextNumbers]_vars

\* the order controller is about to insert an order with a number that an
\* existing order carries
ControllerNumberTaken ==
    pc = "c_order" /\ \E o \in orders : o.orderNumber = generateOrderNumber

\* a service call is about to insert an order (a batch) with a number (a code)
\* that an existing order (batch) carries
ServiceNumberTaken ==
    \E w \in Workers :
        \/ wpc[w] = "insert" /\ \E o \in svcOrders : o.orderNumber = wloc[w].orderNumber
        \/ wpc[w] = "b_insert" /\ \E b \in prodBatches : b.batchCode = wloc[w].batchCode

\* C30: in a sequential history of creates and deletes, the order number or
\* batch code generated for a create differs from the number or code of every
\* existing order or batch, and no create fails
C30_NextCodeIsFresh ==
    /\ ~ControllerNumberTaken
    /\ ~ServiceNumberTaken
    /\ (pc = "idle" /\ res.op = "create") => res.ok
    /\ (AllIdle /\ sres.op \in {"create", "createBatch"}) => sres.ok

====
